---- MODULE Spec2Model ----
(***************************************************************************)
(* AccessManager: the login / refresh / logout / device routes of the      *)
(* backend and the iptables whitelist they drive, as a state machine.      *)
(* Every request handler is cut at its awaits: one action per awaited     *)
(* database or iptables call, so that concurrent requests interleave       *)
(* exactly where the event loop lets them.                                 *)
(***************************************************************************)
EXTENDS Integers, Sequences, FiniteSets, TLC

VARIABLES
  users,        \* user id -> row of the User table
  devices,      \* set of rows of the Device table
  sessions,     \* rows of the Session table, in creation order (index = id)
  connections,  \* rows of the Connection table, in creation order
  chain,        \* the iptables FORWARD chain, first rule first
  auditLog,     \* the newest row of the append-only AuditLog table
  issued,       \* token pairs that some response has handed to a client
  retired,      \* refresh tokens that a rotation superseded or a logout revoked
  revoked,      \* token pairs handed out to a user before a user-scoped revoke
  now,          \* the wall clock, in milliseconds
  env,          \* process.env.MAX_DEVICES_PER_USER (0: unset or not a number)
  req,          \* request slot -> the locals of the handler running in it
  pre,          \* request slot -> tables as they were when the request began
  started,      \* requests received so far (counted only under a budget)
  client        \* the browser's ApiClient: localStorage, refreshPromise, calls

vars == <<users, devices, sessions, connections, chain, auditLog, issued,
          retired, revoked, now, env, req, pre, started, client>>

----------------------------------------------------------------------------
(* Bounds of the model *)

NumUsers == 2
NumMacs == 2
NumIps == 2
MaxInFlight == 2
MaxRequests == 3
MaxSeqRequests == 3
MaxAdminRequests == 4
MaxFaultRequests == 3
MaxCalls == 3
QuotaMacs == 5
MaxHalves == 2
MaxSeconds == 1
MaxChain == 13

(* Program constants *)

DefaultMaxDevices == 4
RefreshTTLSeconds == 604800
AccessTTLSeconds == 900
SessionTTLDays == 7
BaseInserts == 8
NatForwards == 2
MsPerDay == 24 * 60 * 60 * 1000
MsPerSecond == 1000

Users == 1..NumUsers
Procs == 1..MaxInFlight
NoUser == 0
NoDevice == 0
NoSession == 0
NoMac == 0
NoIp == 0

----------------------------------------------------------------------------
(* utils/auth.js *)

NoToken == [userId |-> NoUser, iat |-> 0]

\* jwt.sign({userId}, secret, {expiresIn}): HS256 over {userId, iat, exp}
\* with iat the clock in whole seconds; the same user and the same second
\* give the same string.
generateTokens(userId, t) == [userId |-> userId, iat |-> t \div MsPerSecond]

\* jwt.verify(token, JWT_REFRESH_SECRET): throws once the clock, in whole
\* seconds, has reached exp = iat + 7d.
verifyRefreshToken(tok, t) ==
  /\ tok # NoToken
  /\ (t \div MsPerSecond) < tok.iat + RefreshTTLSeconds

\* jwt.verify(token, JWT_SECRET) for the access token of the pair
verifyAccessToken(tok, t) ==
  /\ tok # NoToken
  /\ (t \div MsPerSecond) < tok.iat + AccessTTLSeconds

\* bcrypt.compare(password, user.password)
comparePassword(password, hashed) == password = hashed

\* expiresAt = new Date(); expiresAt.setDate(expiresAt.getDate() + 7)
SessionExpiry(t) == t + SessionTTLDays * MsPerDay

\* parseInt(process.env.MAX_DEVICES_PER_USER) || 4
maxDevices == IF env = 0 THEN DefaultMaxDevices ELSE env

----------------------------------------------------------------------------
(* Table helpers (the Prisma queries the handlers use) *)

DeviceByMac(mac) == {d \in devices : d.macAddress = mac}
DeviceById(id) == {d \in devices : d.id = id}
DeviceIds == {d.id : d \in devices}

\* prisma.device.count({where: {userId, isActive: true}})
ActiveDeviceCount(u) ==
  Cardinality({d \in devices : d.userId = u /\ d.isActive})

\* the same where clause over a value of the table
ActiveIn(devs, u) == {d \in devs : d.userId = u /\ d.isActive}

\* ids are opaque and never reused while something still refers to them
HeldDeviceIds == {req[p].device : p \in Procs} \cup {req[p].found : p \in Procs}
FreshDeviceId ==
  CHOOSE i \in 1..(Cardinality(devices) + 2 * MaxInFlight + 1) :
    /\ i \notin DeviceIds \cup HeldDeviceIds
    /\ \A j \in 1..(i - 1) : j \in DeviceIds \cup HeldDeviceIds

SessionIds == 1..Len(sessions)
\* what is left at the index of a row that a cascade deleted
DeletedSession == [refreshToken |-> NoToken, userId |-> NoUser, expiresAt |-> 0,
                   isActive |-> FALSE, device |-> NoDevice]
SessionsByToken(tok) ==
  {i \in SessionIds : sessions[i] # DeletedSession /\ sessions[i].refreshToken = tok}

----------------------------------------------------------------------------
(* The FORWARD chain (services/networkService.js) *)

MacRule(mac) == [type |-> "mac", key |-> mac]
IpRule(ip) == [type |-> "ip", key |-> ip]

\* iptables -C FORWARD <rule>
RuleExists(rule) == \E i \in 1..Len(chain) : chain[i] = rule

\* iptables -I FORWARD <rule>: insert as the first rule
InsertRule(c, rule) == <<rule>> \o c

FirstIndex(c, rule) ==
  CHOOSE i \in 1..Len(c) : c[i] = rule /\ \A j \in 1..(i - 1) : c[j] # rule

\* iptables -D FORWARD <rule>: delete the first matching rule, if any
DeleteRule(c, rule) ==
  IF \E i \in 1..Len(c) : c[i] = rule
  THEN LET k == FirstIndex(c, rule)
       IN  [i \in 1..(Len(c) - 1) |-> IF i < k THEN c[i] ELSE c[i + 1]]
  ELSE c

RuleCount(rule) == Cardinality({i \in 1..Len(chain) : chain[i] = rule})

CountIn(c, rule) == Cardinality({i \in 1..Len(c) : c[i] = rule})

\* the same where one rule is not enough for the check to find it
CheckExitMissing(c, rule, o) == IF o = "ok" /\ CountIn(c, rule) > 1 THEN 0 ELSE 1

\* exit status of `iptables -C FORWARD <rule>`: 0 if the rule is there
CheckExit(c, rule, o) == IF o = "ok" /\ CountIn(c, rule) > 0 THEN 0 ELSE 1

\* exit status of `iptables -D FORWARD <rule>` when it runs as it should
\* ("ok": 0 if a rule matched, 1 "Bad rule" if none) or fails ("error")
DeleteExit(c, rule, o) == IF o = "ok" /\ CountIn(c, rule) > 0 THEN 0 ELSE 1

\* the same without || true
OrTrueMissing(exit) == exit

\* `<command> 2>/dev/null || true`: the shell's exit status
OrTrue(exit) == 0

\* promisify(exec): the promise rejects when the child cannot be run
\* ("spawn") or the shell exits non-zero
ExecRejects(o, exit) == o = "spawn" \/ exit # 0

----------------------------------------------------------------------------
(* Request slots *)

\* a field the body of a response does not have
Absent == -1

NoResp == [status |-> 0, error |-> "", activeDevices |-> 0, maxDevices |-> 0,
           tokens |-> NoToken, deviceId |-> NoDevice,
           disconnectedDevices |-> Absent, failures |-> Absent]

Idle == [kind |-> "idle", pc |-> "idle", login |-> NoUser, password |-> "",
         bearer |-> NoToken, user |-> NoUser, mac |-> NoMac, ip |-> NoIp,
         count |-> 0, found |-> NoDevice, device |-> NoDevice,
         tok |-> NoToken, session |-> NoSession, newTok |-> NoToken,
         newExp |-> 0, fwTried |-> FALSE, fwThrew |-> FALSE,
         target |-> NoUser, isActive |-> TRUE, newPassword |-> "",
         todo |-> <<>>, seen |-> 0, threw |-> {}, notRun |-> {},
         outcomes |-> {}, step |-> 0, deviceName |-> "",
         resp |-> NoResp]

NoSnap == [taken |-> FALSE]
InFlight == {p \in Procs : req[p].kind # "idle"}

\* the requests whose handler has not returned yet
Running == {p \in InFlight : req[p].pc # "done"}

Snapshot == [taken |-> TRUE, devices |-> devices, sessions |-> sessions,
             connections |-> connections, chain |-> chain,
             issued |-> issued, retired |-> retired, revoked |-> revoked,
             users |-> users, now |-> now,
             started |-> started, busy |-> Running]

\* res.status(s).json(...): the handler returns
Reply(r, status, error) ==
  [r EXCEPT !.pc = "done",
            !.resp = [NoResp EXCEPT !.status = status, !.error = error]]

\* errorHandler: what a rejected Prisma call becomes
P2002(r) == Reply(r, 409, "Duplicate entry. This record already exists.")
P2025(r) == Reply(r, 404, "Record not found.")
P2003(r) == Reply(r, 400, "Foreign key constraint failed.")

\* how many requests a specification lets in: at most lim.inflight at a
\* time, at most lim.requests in all (0: no budget), and whether a request
\* records the tables it started from
Load(inflight, requests, snap) ==
  [inflight |-> inflight, requests |-> requests, snap |-> snap]

\* a new request enters slot p
Begin(p, lim, r) ==
  /\ req[p].kind = "idle"
  /\ Cardinality(InFlight) < lim.inflight
  /\ lim.requests = 0 \/ started < lim.requests
  /\ started' = IF lim.requests = 0 THEN started ELSE started + 1
  /\ req' = [req EXCEPT ![p] = r]
  /\ pre' = [pre EXCEPT ![p] = IF lim.snap THEN Snapshot ELSE NoSnap]

At(p, kind, pc) == req[p].kind = kind /\ req[p].pc = pc

Tables == <<users, devices, sessions, connections, chain, auditLog, issued,
           retired, revoked>>

----------------------------------------------------------------------------
(* POST /login *)

StartLogin(p, lim, login, password, mac, ip) ==
  /\ Begin(p, lim,
           [Idle EXCEPT !.kind = "login", !.pc = "l_user", !.login = login,
                        !.password = password, !.mac = mac, !.ip = ip])
  /\ UNCHANGED <<Tables, now, env, client>>

\* the same where an inactive account gets an answer of its own
LoginFindUserTelling(p) ==
  /\ At(p, "login", "l_user")
  /\ LET r == req[p]
         u == r.login
     IN  req' = [req EXCEPT ![p] =
           IF u \notin DOMAIN users
             THEN Reply(r, 401, "Invalid credentials")
           ELSE IF ~users[u].isActive
             THEN Reply(r, 403, "Account is deactivated")
           ELSE IF ~comparePassword(r.password, users[u].password)
             THEN Reply(r, 401, "Invalid credentials")
           ELSE [r EXCEPT !.user = u, !.pc = "l_count"]]
  /\ UNCHANGED <<Tables, now, env, client, pre, started>>

\* prisma.user.findFirst({email or username = login, isActive: true}),
\* then comparePassword and getDeviceInfo, which touch no table
LoginFindUser(p) ==
  /\ At(p, "login", "l_user")
  /\ LET r == req[p]
         u == r.login
     IN  req' = [req EXCEPT ![p] =
           IF u \notin DOMAIN users \/ ~users[u].isActive
             THEN Reply(r, 401, "Invalid credentials")
           ELSE IF ~comparePassword(r.password, users[u].password)
             THEN Reply(r, 401, "Invalid credentials")
           ELSE [r EXCEPT !.user = u, !.pc = "l_count"]]
  /\ UNCHANGED <<Tables, now, env, client, pre, started>>

\* prisma.device.count({userId, isActive: true})
LoginCount(p) ==
  /\ At(p, "login", "l_count")
  /\ req' = [req EXCEPT ![p].count = ActiveDeviceCount(req[p].user),
                        ![p].pc = "l_find"]
  /\ UNCHANGED <<Tables, now, env, client, pre, started>>

QuotaReached(count, max) == count >= max

NewDevice(id, mac, ip, userId, t) ==
  [id |-> id, macAddress |-> mac, ipAddress |-> ip, userId |-> userId,
   isActive |-> TRUE, lastSeen |-> t, deviceName |-> "deviceInfo.deviceName"]

\* LoginFindDevice with the row inserted before the device limit is tested
LoginFindDeviceInsertFirst(p) ==
  /\ At(p, "login", "l_find")
  /\ LET r == req[p]
         hit == DeviceByMac(r.mac)
         id == IF hit = {} THEN NoDevice ELSE (CHOOSE d \in hit : TRUE).id
     IN  /\ devices' = IF id = NoDevice
                        THEN devices \cup
                               {NewDevice(FreshDeviceId, r.mac, r.ip, r.user, now)}
                        ELSE devices
         /\ req' = [req EXCEPT ![p] =
               IF id = NoDevice /\ r.count >= maxDevices
                 THEN [r EXCEPT !.pc = "done",
                                !.resp = [NoResp EXCEPT !.status = 403,
                                            !.error = "Device limit reached",
                                            !.activeDevices = r.count,
                                            !.maxDevices = maxDevices]]
               ELSE [r EXCEPT !.found = id, !.pc = "l_upsert"]]
  /\ UNCHANGED <<users, sessions, connections, chain, auditLog, issued,
                 retired, revoked, now, env, client, pre, started>>

\* prisma.device.findUnique({macAddress}) and the device-limit test
LoginFindDevice(p) ==
  /\ At(p, "login", "l_find")
  /\ LET r == req[p]
         hit == DeviceByMac(r.mac)
         id == IF hit = {} THEN NoDevice ELSE (CHOOSE d \in hit : TRUE).id
     IN  req' = [req EXCEPT ![p] =
           IF id = NoDevice /\ QuotaReached(r.count, maxDevices)
             THEN [r EXCEPT !.pc = "done",
                            !.resp = [NoResp EXCEPT !.status = 403,
                                        !.error = "Device limit reached",
                                        !.activeDevices = r.count,
                                        !.maxDevices = maxDevices]]
           ELSE [r EXCEPT !.found = id, !.pc = "l_upsert"]]
  /\ UNCHANGED <<Tables, now, env, client, pre, started>>

\* TouchDevice with the address left as it was
TouchDeviceStaleAddress(d, ip, t) ==
  [d EXCEPT !.lastSeen = t, !.isActive = TRUE]

TouchDevice(d, ip, t) ==
  [d EXCEPT !.ipAddress = ip, !.lastSeen = t, !.isActive = TRUE]

\* prisma.device.create (P2002 when the macAddress is taken) or
\* prisma.device.update({id}) (P2025 when the row is gone)
LoginUpsertDevice(p) ==
  /\ At(p, "login", "l_upsert")
  /\ LET r == req[p] IN
       IF r.found = NoDevice
       THEN IF DeviceByMac(r.mac) # {}
            THEN /\ req' = [req EXCEPT ![p] = P2002(r)]
                 /\ UNCHANGED devices
            ELSE LET id == FreshDeviceId IN
                 /\ devices' = devices \cup
                       {NewDevice(id, r.mac, r.ip, r.user, now)}
                 /\ req' = [req EXCEPT ![p].device = id, ![p].pc = "l_session"]
       ELSE IF DeviceById(r.found) = {}
            THEN /\ req' = [req EXCEPT ![p] = P2025(r)]
                 /\ UNCHANGED devices
            ELSE LET d == CHOOSE d \in DeviceById(r.found) : TRUE IN
                 /\ devices' = (devices \ {d}) \cup {TouchDevice(d, r.ip, now)}
                 /\ req' = [req EXCEPT ![p].device = r.found,
                                       ![p].pc = "l_session"]
  /\ UNCHANGED <<users, sessions, connections, chain, auditLog, issued,
                 retired, revoked, now, env, client, pre, started>>

\* a Session row; "device" is no column of the table: it remembers, for the
\* properties only, which device the login that created the row was for
NewSession(tok, userId, t, deviceId) ==
  [refreshToken |-> tok, userId |-> userId, expiresAt |-> SessionExpiry(t),
   isActive |-> TRUE, device |-> deviceId]

\* the same where the connection record is opened next, with no grant
LoginCreateSessionThenConnection(p) ==
  /\ At(p, "login", "l_session")
  /\ LET r == req[p]
         tok == generateTokens(r.user, now)
     IN  IF SessionsByToken(tok) # {}
         THEN /\ req' = [req EXCEPT ![p] = P2002(r)]
              /\ UNCHANGED sessions
         ELSE /\ sessions' = Append(sessions, NewSession(tok, r.user, now, r.device))
              /\ req' = [req EXCEPT ![p].newTok = tok,
                                    ![p].session = Len(sessions) + 1,
                                    ![p].pc = "l_conn"]
  /\ UNCHANGED <<users, devices, connections, chain, auditLog, issued,
                 retired, revoked, now, env, client, pre, started>>

\* generateTokens(user.id), then prisma.session.create (P2002 when the
\* refreshToken is already stored)
LoginCreateSession(p) ==
  /\ At(p, "login", "l_session")
  /\ LET r == req[p]
         tok == generateTokens(r.user, now)
     IN  IF SessionsByToken(tok) # {}
         THEN /\ req' = [req EXCEPT ![p] = P2002(r)]
              /\ UNCHANGED sessions
         ELSE /\ sessions' = Append(sessions, NewSession(tok, r.user, now, r.device))
              /\ req' = [req EXCEPT ![p].newTok = tok,
                                    ![p].session = Len(sessions) + 1,
                                    ![p].pc = "l_fw_check"]
  /\ UNCHANGED <<users, devices, connections, chain, auditLog, issued,
                 retired, revoked, now, env, client, pre, started>>

\* how one exec of an iptables command can end: it runs ("ok"), iptables
\* exits non-zero ("error"), or the child cannot be run at all ("spawn")
ExecOutcomes == {"ok", "error", "spawn"}

\* can the chain take one more rule (the model's cap on its length)
Room(c) == Len(c) < MaxChain

\* addDeviceToWhitelist: iptables -C ... ; any rejection of the exec is
\* read as "rule doesn't exist"
LoginWhitelistCheck(p, oc) ==
  /\ At(p, "login", "l_fw_check")
  /\ \E o \in oc :
       req' = [req EXCEPT ![p].fwTried = TRUE, ![p].pc =
                 IF ~ExecRejects(o, CheckExit(chain, MacRule(req[p].mac), o))
                 THEN "l_conn" ELSE "l_fw_mac"]
  /\ UNCHANGED <<Tables, now, env, client, pre, started>>

\* the same where a failed command is not caught
LoginWhitelistMacFatal(p, oc) ==
  /\ At(p, "login", "l_fw_mac")
  /\ \E o \in oc :
       IF o = "ok" /\ Room(chain)
       THEN /\ chain' = InsertRule(chain, MacRule(req[p].mac))
            /\ req' = [req EXCEPT ![p].pc = "l_fw_ip"]
       ELSE /\ UNCHANGED chain
            /\ req' = [req EXCEPT ![p] =
                 [Reply(req[p], 500, "Internal server error")
                    EXCEPT !.fwThrew = TRUE]]
  /\ UNCHANGED <<users, devices, sessions, connections, auditLog, issued,
                 retired, revoked, now, env, client, pre, started>>

\* addDeviceToWhitelist: iptables -I FORWARD -m mac --mac-source <mac>;
\* a rejection is rethrown and swallowed by the login handler
LoginWhitelistMac(p, oc) ==
  /\ At(p, "login", "l_fw_mac")
  /\ \E o \in oc :
       IF o = "ok" /\ Room(chain)
       THEN /\ chain' = InsertRule(chain, MacRule(req[p].mac))
            /\ req' = [req EXCEPT ![p].pc = "l_fw_ip"]
       ELSE /\ UNCHANGED chain
            /\ req' = [req EXCEPT ![p].pc = "l_conn", ![p].fwThrew = TRUE]
  /\ UNCHANGED <<users, devices, sessions, connections, auditLog, issued,
                 retired, revoked, now, env, client, pre, started>>

\* addDeviceToWhitelist: iptables -I FORWARD -s <clientIP>
LoginWhitelistIp(p, oc) ==
  /\ At(p, "login", "l_fw_ip")
  /\ \E o \in oc :
       /\ chain' = IF o = "ok" /\ Room(chain)
                   THEN InsertRule(chain, IpRule(req[p].ip)) ELSE chain
       /\ req' = [req EXCEPT ![p].pc = "l_conn",
                             ![p].fwThrew = ~(o = "ok" /\ Room(chain))]
  /\ UNCHANGED <<users, devices, sessions, connections, auditLog, issued,
                 retired, revoked, now, env, client, pre, started>>

NewConnection(userId, deviceId, ip) ==
  [userId |-> userId, deviceId |-> deviceId, ipAddress |-> ip,
   isActive |-> TRUE]

\* prisma.connection.create (P2003 when the device row is gone)
LoginCreateConnection(p) ==
  /\ At(p, "login", "l_conn")
  /\ LET r == req[p] IN
       IF DeviceById(r.device) = {}
       THEN /\ req' = [req EXCEPT ![p] = P2003(r)]
            /\ UNCHANGED connections
       ELSE /\ connections' =
                 Append(connections, NewConnection(r.user, r.device, r.ip))
            /\ req' = [req EXCEPT ![p].pc = "l_audit"]
  /\ UNCHANGED <<users, devices, sessions, chain, auditLog, issued,
                 retired, revoked, now, env, client, pre, started>>

AuditRow(action, userId) == [action |-> action, userId |-> userId]

\* prisma.auditLog.create({action: 'LOGIN'}), then res.json with the pair
LoginAudit(p) ==
  /\ At(p, "login", "l_audit")
  /\ LET r == req[p] IN
       /\ auditLog' = AuditRow("LOGIN", r.user)
       /\ issued' = issued \cup {r.newTok}
       /\ req' = [req EXCEPT ![p].pc = "done",
                    ![p].resp = [NoResp EXCEPT !.status = 200,
                                   !.tokens = r.newTok,
                                   !.deviceId = r.device]]
  /\ UNCHANGED <<users, devices, sessions, connections, chain, retired, revoked,
                 now, env, client, pre, started>>

----------------------------------------------------------------------------
(* The response has been sent: the slot is free again *)

Finish(p) ==
  /\ req[p].pc = "done"
  /\ req' = [req EXCEPT ![p] = Idle]
  /\ pre' = [pre EXCEPT ![p] = NoSnap]
  /\ UNCHANGED <<Tables, now, env, client, started>>

(* Time passes: the clock moves to a later instant. A handler runs within one *)
(* instant: the clock moves between requests, not while one is in flight.   *)

\* the instants the clock is read at: the first half seconds, and the moment
\* seven days after the start
Instants(h) == {k * (MsPerSecond \div 2) : k \in 0..h} \cup {SessionTTLDays * MsPerDay}

Tick(instants) ==
  /\ InFlight = {}
  /\ \E t \in instants : t > now /\ now' = t
  /\ UNCHANGED <<Tables, env, client, req, pre, started>>

----------------------------------------------------------------------------
(* POST /refresh *)

StartRefresh(p, lim, tok) ==
  /\ Begin(p, lim,
           [Idle EXCEPT !.kind = "refresh", !.pc = "r_find", !.tok = tok])
  /\ UNCHANGED <<Tables, now, env, client>>

\* the where clause of prisma.session.findUnique
ValidSession(i, tok, t) ==
  /\ sessions[i].refreshToken = tok
  /\ sessions[i].isActive
  /\ sessions[i].expiresAt > t

\* the same where the user of the session is not tested
RefreshFindSessionAnyUser(p) ==
  /\ At(p, "refresh", "r_find")
  /\ LET r == req[p]
         hit == {i \in SessionIds : ValidSession(i, r.tok, now)}
         sid == CHOOSE i \in hit : TRUE
         uid == sessions[sid].userId
     IN  req' = [req EXCEPT ![p] =
           IF hit = {}
             THEN Reply(r, 401, "Invalid or expired refresh token")
           ELSE IF ~verifyRefreshToken(r.tok, now)
             THEN [r EXCEPT !.session = sid, !.pc = "r_deact"]
           ELSE [r EXCEPT !.session = sid, !.user = uid,
                          !.newTok = generateTokens(uid, now),
                          !.newExp = SessionExpiry(now),
                          !.pc = "r_update"]]
  /\ UNCHANGED <<Tables, now, env, client, pre, started>>

\* prisma.session.findUnique({refreshToken, isActive, expiresAt > now},
\* include user), then verifyRefreshToken, the isActive test of the user and
\* generateTokens, all before the next await
RefreshFindSession(p) ==
  /\ At(p, "refresh", "r_find")
  /\ LET r == req[p]
         hit == {i \in SessionIds : ValidSession(i, r.tok, now)}
         sid == CHOOSE i \in hit : TRUE
         uid == sessions[sid].userId
     IN  req' = [req EXCEPT ![p] =
           IF hit = {}
             THEN Reply(r, 401, "Invalid or expired refresh token")
           ELSE IF ~verifyRefreshToken(r.tok, now)
             THEN [r EXCEPT !.session = sid, !.pc = "r_deact"]
           ELSE IF ~users[uid].isActive
             THEN Reply(r, 401, "User account is inactive")
           ELSE [r EXCEPT !.session = sid, !.user = uid,
                          !.newTok = generateTokens(uid, now),
                          !.newExp = SessionExpiry(now),
                          !.pc = "r_update"]]
  /\ UNCHANGED <<Tables, now, env, client, pre, started>>

\* catch of verifyRefreshToken: prisma.session.update({isActive: false})
RefreshDeactivate(p) ==
  /\ At(p, "refresh", "r_deact")
  /\ sessions' = [sessions EXCEPT ![req[p].session].isActive = FALSE]
  /\ retired' = retired \cup {sessions[req[p].session].refreshToken}
  /\ req' = [req EXCEPT ![p] = Reply(req[p], 401, "Invalid refresh token")]
  /\ UNCHANGED <<users, devices, connections, chain, auditLog, issued,
                 revoked, now, env, client, pre, started>>

\* prisma.session.update({id}, {refreshToken, expiresAt}) (P2002 when another
\* row stores the new refreshToken), then res.json with the new pair
RefreshUpdate(p) ==
  /\ At(p, "refresh", "r_update")
  /\ LET r == req[p] IN
       IF SessionsByToken(r.newTok) \ {r.session} # {}
       THEN /\ req' = [req EXCEPT ![p] = P2002(r)]
            /\ UNCHANGED <<sessions, issued, retired>>
       ELSE /\ sessions' = [sessions EXCEPT
                              ![r.session].refreshToken = r.newTok,
                              ![r.session].expiresAt = r.newExp]
            /\ issued' = issued \cup {r.newTok}
            /\ retired' = retired \cup {sessions[r.session].refreshToken}
            /\ req' = [req EXCEPT ![p].pc = "done",
                         ![p].resp = [NoResp EXCEPT !.status = 200,
                                        !.tokens = r.newTok]]
  /\ UNCHANGED <<users, devices, connections, chain, auditLog, revoked, now,
                 env, client, pre, started>>

----------------------------------------------------------------------------
(* POST /logout *)

StartLogout(p, lim, tok, bearer) ==
  /\ Begin(p, lim,
           [Idle EXCEPT !.kind = "logout", !.pc = "o_session", !.tok = tok,
                        !.bearer = bearer])
  /\ UNCHANGED <<Tables, now, env, client>>

\* prisma.session.updateMany({refreshToken}, {isActive: false}) when a
\* refresh token came with the request, then jwt.verify of the bearer
LogoutSession(p) ==
  /\ At(p, "logout", "o_session")
  /\ LET r == req[p] IN
       /\ sessions' =
            IF r.tok = NoToken THEN sessions
            ELSE [i \in SessionIds |->
                    IF sessions[i].refreshToken = r.tok
                    THEN [sessions[i] EXCEPT !.isActive = FALSE]
                    ELSE sessions[i]]
       /\ req' = [req EXCEPT ![p] =
            IF verifyAccessToken(r.bearer, now)
            THEN [r EXCEPT !.pc = "o_user"]
            ELSE Reply(r, 200, "")]
       /\ retired' = IF SessionsByToken(r.tok) = {} THEN retired
                     ELSE retired \cup {r.tok}
  /\ UNCHANGED <<users, devices, connections, chain, auditLog, issued,
                 revoked, now, env, client, pre, started>>

\* prisma.user.findUnique({id: decoded.userId})
LogoutFindUser(p) ==
  /\ At(p, "logout", "o_user")
  /\ LET r == req[p] IN
       req' = [req EXCEPT ![p] =
         IF r.bearer.userId \in DOMAIN users
         THEN [r EXCEPT !.user = r.bearer.userId, !.pc = "o_audit"]
         ELSE Reply(r, 200, "")]
  /\ UNCHANGED <<Tables, now, env, client, pre, started>>

\* prisma.auditLog.create({action: 'LOGOUT'})
LogoutAudit(p) ==
  /\ At(p, "logout", "o_audit")
  /\ auditLog' = AuditRow("LOGOUT", req[p].user)
  /\ req' = [req EXCEPT ![p] = Reply(req[p], 200, "")]
  /\ UNCHANGED <<users, devices, sessions, connections, chain, issued,
                 retired, revoked, now, env, client, pre, started>>

----------------------------------------------------------------------------
(* authMiddleware, in front of the device, user, admin and network routes, *)
(* and adminMiddleware, which runs in the same tick on the admin routes    *)

FirstStep(kind) ==
  CASE kind = "disconnect" -> "d_find"
    [] kind = "delete" -> "x_find"
    [] kind = "rename" -> "m_name"
    [] kind = "password" -> "c_find"
    [] kind = "reset" -> "s_find"
    [] kind = "update" -> "u_find"
    [] kind = "deluser" -> "k_find"
    [] kind = "disall" -> "a_find"

\* the routes behind adminMiddleware
AdminKinds == {"reset", "update", "deluser", "disall"}

\* the same where the account is looked up but isActive is not read
AuthenticateAnyExisting(p) ==
  /\ req[p].pc = "auth"
  /\ LET r == req[p]
         uid == r.bearer.userId
     IN  req' = [req EXCEPT ![p] =
           IF r.bearer = NoToken
             THEN Reply(r, 401, "Access denied. No token provided.")
           ELSE IF ~verifyAccessToken(r.bearer, now)
             THEN Reply(r, 401, "Access denied. Token expired.")
           ELSE IF uid \notin DOMAIN users
             THEN Reply(r, 401, "Access denied. User not found or inactive.")
           ELSE IF r.kind \in AdminKinds /\ ~users[uid].isAdmin
             THEN Reply(r, 403, "Access denied. Admin privileges required.")
           ELSE [r EXCEPT !.user = uid, !.pc = FirstStep(r.kind)]]
  /\ UNCHANGED <<Tables, now, env, client, pre, started>>

Authenticate(p) ==
  /\ req[p].pc = "auth"
  /\ LET r == req[p]
         uid == r.bearer.userId
     IN  req' = [req EXCEPT ![p] =
           IF r.bearer = NoToken
             THEN Reply(r, 401, "Access denied. No token provided.")
           ELSE IF ~verifyAccessToken(r.bearer, now)
             THEN Reply(r, 401, "Access denied. Token expired.")
           ELSE IF uid \notin DOMAIN users \/ ~users[uid].isActive
             THEN Reply(r, 401, "Access denied. User not found or inactive.")
           ELSE IF r.kind \in AdminKinds /\ ~users[uid].isAdmin
             THEN Reply(r, 403, "Access denied. Admin privileges required.")
           ELSE [r EXCEPT !.user = uid, !.pc = FirstStep(r.kind)]]
  /\ UNCHANGED <<Tables, now, env, client, pre, started>>

----------------------------------------------------------------------------
(* removeDeviceFromWhitelist, as called by the handlers *)

\* iptables -D FORWARD -m mac --mac-source <mac> -j ACCEPT 2>/dev/null || true
RemoveMacRule(p, kind, pcMac, pcIp, pcAfter, oc) ==
  /\ At(p, kind, pcMac)
  /\ \E o \in oc :
       /\ chain' = IF o = "ok" THEN DeleteRule(chain, MacRule(req[p].mac))
                   ELSE chain
       /\ LET thrown == ExecRejects(o,
                           OrTrue(DeleteExit(chain, MacRule(req[p].mac), o)))
          IN  req' = [req EXCEPT ![p].pc = IF thrown THEN pcAfter ELSE pcIp,
                                 ![p].outcomes = @ \cup {o},
                                 ![p].fwTried = TRUE,
                                 ![p].fwThrew = thrown]
  /\ UNCHANGED <<users, devices, sessions, connections, auditLog, issued,
                 retired, revoked, now, env, client, pre, started>>

\* iptables -D FORWARD -s <ip> -j ACCEPT 2>/dev/null || true
RemoveIpRule(p, kind, pcIp, pcAfter, oc) ==
  /\ At(p, kind, pcIp)
  /\ \E o \in oc :
       /\ chain' = IF o = "ok" THEN DeleteRule(chain, IpRule(req[p].ip))
                   ELSE chain
       /\ req' = [req EXCEPT ![p].pc = pcAfter,
                             ![p].outcomes = @ \cup {o},
                             ![p].fwThrew = ExecRejects(o,
                                OrTrue(DeleteExit(chain, IpRule(req[p].ip), o)))]
  /\ UNCHANGED <<users, devices, sessions, connections, auditLog, issued,
                 retired, revoked, now, env, client, pre, started>>

\* the same where the device is looked up by its id alone
FindAnyDevice(p, kind, pcFind, pcNext) ==
  /\ At(p, kind, pcFind)
  /\ LET r == req[p]
         hit == DeviceById(r.device)
         d == CHOOSE d \in hit : TRUE
     IN  req' = [req EXCEPT ![p] =
           IF hit = {} THEN Reply(r, 404, "Device not found")
           ELSE [r EXCEPT !.found = d.id, !.mac = d.macAddress,
                          !.ip = d.ipAddress, !.pc = pcNext]]
  /\ UNCHANGED <<Tables, now, env, client, pre, started>>

\* prisma.device.findFirst({id: deviceId, userId: req.user.id})
FindOwnDevice(p, kind, pcFind, pcNext) ==
  /\ At(p, kind, pcFind)
  /\ LET r == req[p]
         hit == {d \in DeviceById(r.device) : d.userId = r.user}
         d == CHOOSE d \in hit : TRUE
     IN  req' = [req EXCEPT ![p] =
           IF hit = {} THEN Reply(r, 404, "Device not found")
           ELSE [r EXCEPT !.found = d.id, !.mac = d.macAddress,
                          !.ip = d.ipAddress, !.pc = pcNext]]
  /\ UNCHANGED <<Tables, now, env, client, pre, started>>

----------------------------------------------------------------------------
(* POST /devices/:deviceId/disconnect *)

StartDisconnect(p, lim, bearer, deviceId) ==
  /\ Begin(p, lim,
           [Idle EXCEPT !.kind = "disconnect", !.pc = "auth",
                        !.bearer = bearer, !.device = deviceId])
  /\ UNCHANGED <<Tables, now, env, client>>

DisconnectFind(p) == FindOwnDevice(p, "disconnect", "d_find", "d_fw_mac")

DisconnectRemoveMac(p, oc) ==
  RemoveMacRule(p, "disconnect", "d_fw_mac", "d_fw_ip", "d_dev", oc)

DisconnectRemoveIp(p, oc) ==
  RemoveIpRule(p, "disconnect", "d_fw_ip", "d_dev", oc)

\* prisma.device.update({id}, {isActive: false})
DisconnectDeactivate(p) ==
  /\ At(p, "disconnect", "d_dev")
  /\ LET r == req[p] IN
       IF DeviceById(r.device) = {}
       THEN /\ req' = [req EXCEPT ![p] = P2025(r)]
            /\ UNCHANGED devices
       ELSE LET d == CHOOSE d \in DeviceById(r.device) : TRUE IN
            /\ devices' = (devices \ {d}) \cup {[d EXCEPT !.isActive = FALSE]}
            /\ req' = [req EXCEPT ![p].pc = "d_conn"]
  /\ UNCHANGED <<users, sessions, connections, chain, auditLog, issued,
                 retired, revoked, now, env, client, pre, started>>

\* prisma.connection.updateMany({deviceId, isActive: true}, {isActive: false})
DisconnectCloseConnections(p) ==
  /\ At(p, "disconnect", "d_conn")
  /\ connections' =
       [i \in 1..Len(connections) |->
          IF connections[i].deviceId = req[p].device /\ connections[i].isActive
          THEN [connections[i] EXCEPT !.isActive = FALSE]
          ELSE connections[i]]
  /\ req' = [req EXCEPT ![p].pc = "d_audit"]
  /\ UNCHANGED <<users, devices, sessions, chain, auditLog, issued,
                 retired, revoked, now, env, client, pre, started>>

DisconnectAudit(p) ==
  /\ At(p, "disconnect", "d_audit")
  /\ auditLog' = AuditRow("DEVICE_DISCONNECT", req[p].user)
  /\ req' = [req EXCEPT ![p] = Reply(req[p], 200, "")]
  /\ UNCHANGED <<users, devices, sessions, connections, chain, issued,
                 retired, revoked, now, env, client, pre, started>>

----------------------------------------------------------------------------
(* DELETE /devices/:deviceId *)

StartDelete(p, lim, bearer, deviceId) ==
  /\ Begin(p, lim,
           [Idle EXCEPT !.kind = "delete", !.pc = "auth",
                        !.bearer = bearer, !.device = deviceId])
  /\ UNCHANGED <<Tables, now, env, client>>

DeleteFind(p) == FindOwnDevice(p, "delete", "x_find", "x_fw_mac")

DeleteRemoveMac(p, oc) ==
  RemoveMacRule(p, "delete", "x_fw_mac", "x_fw_ip", "x_del", oc)

DeleteRemoveIp(p, oc) == RemoveIpRule(p, "delete", "x_fw_ip", "x_del", oc)

\* prisma.device.delete({id}): the row and, by cascade, its connections
DeleteDevice(p) ==
  /\ At(p, "delete", "x_del")
  /\ LET r == req[p] IN
       IF DeviceById(r.device) = {}
       THEN /\ req' = [req EXCEPT ![p] = P2025(r)]
            /\ UNCHANGED <<devices, connections>>
       ELSE /\ devices' = devices \ DeviceById(r.device)
            /\ connections' =
                 SelectSeq(connections, LAMBDA c : c.deviceId # r.device)
            /\ req' = [req EXCEPT ![p].pc = "x_audit"]
  /\ UNCHANGED <<users, sessions, chain, auditLog, issued, retired, revoked, now, env, client, pre, started>>

DeleteAudit(p) ==
  /\ At(p, "delete", "x_audit")
  /\ auditLog' = AuditRow("DEVICE_DELETE", req[p].user)
  /\ req' = [req EXCEPT ![p] = Reply(req[p], 200, "")]
  /\ UNCHANGED <<users, devices, sessions, connections, chain, issued,
                 retired, revoked, now, env, client, pre, started>>

----------------------------------------------------------------------------
(* removeDeviceFromWhitelist in a loop over the devices a handler found *)

RECURSIVE ById(_)
\* the rows of a findMany, in the order of their ids
ById(S) ==
  IF S = {} THEN <<>>
  ELSE LET d == CHOOSE d \in S : \A e \in S : d.id <= e.id
       IN  <<d>> \o ById(S \ {d})

\* the handler leaves the device at the head of its list: on to the next
\* device, or out of the loop
NextDevice(r, pcMac, pcAfter) ==
  [r EXCEPT !.todo = Tail(r.todo),
            !.pc = IF Len(r.todo) > 1 THEN pcMac ELSE pcAfter]

\* iptables -D ... mac ... || true for the device at the head of the list; a
\* rejection is caught by the loop body, which goes on with the next device
RevokeNextMac(p, kind, pcMac, pcIp, pcAfter, oc) ==
  /\ At(p, kind, pcMac)
  /\ \E o \in oc :
       LET r == req[p]
           d == Head(r.todo)
           thrown == ExecRejects(o, OrTrue(DeleteExit(chain, MacRule(d.macAddress), o)))
           seenOut == [r EXCEPT !.fwTried = TRUE,
                                !.notRun = IF o = "ok" THEN @ ELSE @ \cup {d.id}]
       IN  /\ chain' = IF o = "ok" THEN DeleteRule(chain, MacRule(d.macAddress))
                       ELSE chain
           /\ req' = [req EXCEPT ![p] =
                 IF thrown
                 THEN NextDevice([seenOut EXCEPT !.threw = @ \cup {d.id},
                                                 !.fwThrew = TRUE],
                                 pcMac, pcAfter)
                 ELSE [seenOut EXCEPT !.pc = pcIp]]
  /\ UNCHANGED <<users, devices, sessions, connections, auditLog, issued,
                 retired, revoked, now, env, client, pre, started>>

\* iptables -D ... -s <ip> ... || true for the same device
RevokeNextIp(p, kind, pcMac, pcIp, pcAfter, oc) ==
  /\ At(p, kind, pcIp)
  /\ \E o \in oc :
       LET r == req[p]
           d == Head(r.todo)
           thrown == ExecRejects(o, OrTrue(DeleteExit(chain, IpRule(d.ipAddress), o)))
           seenOut == [r EXCEPT !.notRun = IF o = "ok" THEN @ ELSE @ \cup {d.id},
                                !.threw = IF thrown THEN @ \cup {d.id} ELSE @,
                                !.fwThrew = IF thrown THEN TRUE ELSE @]
       IN  /\ chain' = IF o = "ok" THEN DeleteRule(chain, IpRule(d.ipAddress))
                       ELSE chain
           /\ req' = [req EXCEPT ![p] = NextDevice(seenOut, pcMac, pcAfter)]
  /\ UNCHANGED <<users, devices, sessions, connections, auditLog, issued,
                 retired, revoked, now, env, client, pre, started>>

\* the same where only the oldest session of the user is updated
SessionsOffFirst(u) ==
  [i \in SessionIds |->
     IF sessions[i].userId = u /\ \A j \in 1..(i - 1) : sessions[j].userId # u
     THEN [sessions[i] EXCEPT !.isActive = FALSE]
     ELSE sessions[i]]

\* prisma.session.updateMany({userId}, {isActive: false})
SessionsOff(u) ==
  [i \in SessionIds |->
     IF sessions[i].userId = u THEN [sessions[i] EXCEPT !.isActive = FALSE]
     ELSE sessions[i]]

\* the token pairs handed out to user u so far
IssuedTo(u) == {t \in issued : t.userId = u}

----------------------------------------------------------------------------
(* PUT /users/change-password *)

StartPassword(p, lim, bearer, current, new) ==
  /\ Begin(p, lim,
           [Idle EXCEPT !.kind = "password", !.pc = "auth", !.bearer = bearer,
                        !.password = current, !.newPassword = new])
  /\ UNCHANGED <<Tables, now, env, client>>

\* prisma.user.findUnique({id: req.user.id}), comparePassword, hashPassword
PasswordFind(p) ==
  /\ At(p, "password", "c_find")
  /\ LET r == req[p] IN
       req' = [req EXCEPT ![p] =
         IF r.user \notin DOMAIN users
           THEN Reply(r, 500, "Internal server error")
         ELSE IF ~comparePassword(r.password, users[r.user].password)
           THEN Reply(r, 400, "Current password is incorrect")
         ELSE [r EXCEPT !.target = r.user, !.pc = "c_update"]]
  /\ UNCHANGED <<Tables, now, env, client, pre, started>>

\* prisma.user.update({id}, {password}) (P2025 when the row is gone)
SetPassword(p, kind, pcUpdate, pcNext) ==
  /\ At(p, kind, pcUpdate)
  /\ LET r == req[p] IN
       IF r.target \notin DOMAIN users
       THEN /\ req' = [req EXCEPT ![p] = P2025(r)]
            /\ UNCHANGED users
       ELSE /\ users' = [users EXCEPT ![r.target].password = r.newPassword]
            /\ req' = [req EXCEPT ![p].pc = pcNext]
  /\ UNCHANGED <<devices, sessions, connections, chain, auditLog, issued,
                 retired, revoked, now, env, client, pre, started>>

\* prisma.session.updateMany({userId}, {isActive: false})
RevokeSessions(p, kind, pcSessions, pcNext) ==
  /\ At(p, kind, pcSessions)
  /\ sessions' = SessionsOff(req[p].target)
  /\ req' = [req EXCEPT ![p].pc = pcNext]
  /\ UNCHANGED <<users, devices, connections, chain, auditLog, issued,
                 retired, revoked, now, env, client, pre, started>>

\* prisma.auditLog.create, then res.json: the user-scoped revoke is complete
RevokeAudit(p, kind, pcAudit, action) ==
  /\ At(p, kind, pcAudit)
  /\ auditLog' = AuditRow(action, req[p].user)
  /\ revoked' = revoked \cup IssuedTo(req[p].target)
  /\ req' = [req EXCEPT ![p] = Reply(req[p], 200, "")]
  /\ UNCHANGED <<users, devices, sessions, connections, chain, issued,
                 retired, now, env, client, pre, started>>

PasswordUpdate(p) == SetPassword(p, "password", "c_update", "c_sessions")
PasswordSessions(p) == RevokeSessions(p, "password", "c_sessions", "c_audit")
PasswordAudit(p) == RevokeAudit(p, "password", "c_audit", "PASSWORD_CHANGE")

----------------------------------------------------------------------------
(* POST /admin/users/:userId/reset-password *)

StartReset(p, lim, bearer, userId, generated) ==
  /\ Begin(p, lim,
           [Idle EXCEPT !.kind = "reset", !.pc = "auth", !.bearer = bearer,
                        !.target = userId, !.newPassword = generated])
  /\ UNCHANGED <<Tables, now, env, client>>

\* prisma.user.findUnique({id: userId}), generateRandomPassword, hashPassword
FindTarget(p, kind, pcFind, pcNext) ==
  /\ At(p, kind, pcFind)
  /\ req' = [req EXCEPT ![p] =
       IF req[p].target \notin DOMAIN users
       THEN Reply(req[p], 404, "User not found")
       ELSE [req[p] EXCEPT !.pc = pcNext]]
  /\ UNCHANGED <<Tables, now, env, client, pre, started>>

ResetFind(p) == FindTarget(p, "reset", "s_find", "s_update")
ResetUpdate(p) == SetPassword(p, "reset", "s_update", "s_sessions")
ResetSessions(p) == RevokeSessions(p, "reset", "s_sessions", "s_audit")
ResetAudit(p) == RevokeAudit(p, "reset", "s_audit", "ADMIN_RESET_PASSWORD")

----------------------------------------------------------------------------
(* PUT /admin/users/:userId, with isActive in the body *)

StartUpdate(p, lim, bearer, userId, isActive) ==
  /\ Begin(p, lim,
           [Idle EXCEPT !.kind = "update", !.pc = "auth", !.bearer = bearer,
                        !.target = userId, !.isActive = isActive])
  /\ UNCHANGED <<Tables, now, env, client>>

UpdateFind(p) == FindTarget(p, "update", "u_find", "u_update")

\* prisma.user.update({id}, {isActive}) (P2025 when the row is gone)
UpdateUser(p) ==
  /\ At(p, "update", "u_update")
  /\ LET r == req[p] IN
       IF r.target \notin DOMAIN users
       THEN /\ req' = [req EXCEPT ![p] = P2025(r)]
            /\ UNCHANGED users
       ELSE /\ users' = [users EXCEPT ![r.target].isActive = r.isActive]
            /\ req' = [req EXCEPT ![p].pc =
                         IF r.isActive THEN "u_audit" ELSE "u_sessions"]
  /\ UNCHANGED <<devices, sessions, connections, chain, auditLog, issued,
                 retired, revoked, now, env, client, pre, started>>

UpdateSessions(p) == RevokeSessions(p, "update", "u_sessions", "u_devices")

\* the handler has the rows of a findMany: into the loop, or past it
StartLoop(r, rows, pcMac, pcAfter) ==
  [r EXCEPT !.todo = ById(rows), !.seen = Cardinality(rows),
            !.pc = IF rows = {} THEN pcAfter ELSE pcMac]

\* prisma.device.findMany({userId, isActive: true})
UpdateFindDevices(p) ==
  /\ At(p, "update", "u_devices")
  /\ req' = [req EXCEPT ![p] =
       StartLoop(req[p], ActiveIn(devices, req[p].target), "u_fw_mac", "u_devs")]
  /\ UNCHANGED <<Tables, now, env, client, pre, started>>

UpdateRevokeMac(p, oc) ==
  RevokeNextMac(p, "update", "u_fw_mac", "u_fw_ip", "u_devs", oc)

UpdateRevokeIp(p, oc) ==
  RevokeNextIp(p, "update", "u_fw_mac", "u_fw_ip", "u_devs", oc)

\* prisma.device.updateMany({userId}, {isActive: false})
UpdateDevicesOff(p) ==
  /\ At(p, "update", "u_devs")
  /\ devices' = {IF d.userId = req[p].target THEN [d EXCEPT !.isActive = FALSE]
                 ELSE d : d \in devices}
  /\ req' = [req EXCEPT ![p].pc = "u_conns"]
  /\ UNCHANGED <<users, sessions, connections, chain, auditLog, issued,
                 retired, revoked, now, env, client, pre, started>>

\* prisma.connection.updateMany({userId, isActive: true}, {isActive: false})
UpdateCloseConnections(p) ==
  /\ At(p, "update", "u_conns")
  /\ connections' =
       [i \in 1..Len(connections) |->
          IF connections[i].userId = req[p].target
          THEN [connections[i] EXCEPT !.isActive = FALSE]
          ELSE connections[i]]
  /\ req' = [req EXCEPT ![p].pc = "u_audit"]
  /\ UNCHANGED <<users, devices, sessions, chain, auditLog, issued,
                 retired, revoked, now, env, client, pre, started>>

\* prisma.auditLog.create, then res.json({message, user: updatedUser})
UpdateAudit(p) ==
  /\ At(p, "update", "u_audit")
  /\ auditLog' = AuditRow("ADMIN_UPDATE_USER", req[p].user)
  /\ revoked' = IF req[p].isActive THEN revoked
                ELSE revoked \cup IssuedTo(req[p].target)
  /\ req' = [req EXCEPT ![p] = Reply(req[p], 200, "")]
  /\ UNCHANGED <<users, devices, sessions, connections, chain, issued,
                 retired, now, env, client, pre, started>>

----------------------------------------------------------------------------
(* DELETE /admin/users/:userId *)

StartDeleteUser(p, lim, bearer, userId) ==
  /\ Begin(p, lim,
           [Idle EXCEPT !.kind = "deluser", !.pc = "auth", !.bearer = bearer,
                        !.target = userId])
  /\ UNCHANGED <<Tables, now, env, client>>

\* userId === req.user.id, then prisma.user.findUnique(include devices)
DeleteUserFind(p) ==
  /\ At(p, "deluser", "k_find")
  /\ LET r == req[p] IN
       req' = [req EXCEPT ![p] =
         IF r.target = r.user
           THEN Reply(r, 400, "Cannot delete your own account")
         ELSE IF r.target \notin DOMAIN users
           THEN Reply(r, 404, "User not found")
         ELSE StartLoop(r, {d \in devices : d.userId = r.target},
                        "k_fw_mac", "k_del")]
  /\ UNCHANGED <<Tables, now, env, client, pre, started>>

DeleteUserRevokeMac(p, oc) ==
  RevokeNextMac(p, "deluser", "k_fw_mac", "k_fw_ip", "k_del", oc)

DeleteUserRevokeIp(p, oc) ==
  RevokeNextIp(p, "deluser", "k_fw_mac", "k_fw_ip", "k_del", oc)

\* the relations of the schema on the deletion of a user row: the rows
\* that reference it are deleted with it, the user's devices, sessions and
\* connections and the connections of those devices
CascadeDevices(u) == {d \in devices : d.userId # u}

CascadeSessions(u) ==
  [i \in SessionIds |->
     IF sessions[i].userId = u THEN DeletedSession ELSE sessions[i]]

CascadeConnections(u) ==
  SelectSeq(connections,
            LAMBDA c : /\ c.userId # u
                       /\ \A d \in devices : d.id = c.deviceId => d.userId # u)

\* prisma.user.delete({id}) (P2025 when the row is gone): the row and, by
\* cascade, the user's devices, sessions and connections
DeleteUser(p) ==
  /\ At(p, "deluser", "k_del")
  /\ LET r == req[p] IN
       IF r.target \notin DOMAIN users
       THEN /\ req' = [req EXCEPT ![p] = P2025(r)]
            /\ UNCHANGED <<users, devices, sessions, connections>>
       ELSE /\ users' = [u \in DOMAIN users \ {r.target} |-> users[u]]
            /\ devices' = CascadeDevices(r.target)
            /\ sessions' = CascadeSessions(r.target)
            /\ connections' = CascadeConnections(r.target)
            /\ req' = [req EXCEPT ![p].pc = "k_audit"]
  /\ UNCHANGED <<chain, auditLog, issued, retired, revoked, now, env, client, pre,
                 started>>

DeleteUserAudit(p) ==
  /\ At(p, "deluser", "k_audit")
  /\ auditLog' = AuditRow("ADMIN_DELETE_USER", req[p].user)
  /\ req' = [req EXCEPT ![p] = Reply(req[p], 200, "")]
  /\ UNCHANGED <<users, devices, sessions, connections, chain, issued,
                 retired, revoked, now, env, client, pre, started>>

----------------------------------------------------------------------------
(* POST /network/disconnect-all *)

StartDisconnectAll(p, lim, bearer) ==
  /\ Begin(p, lim,
           [Idle EXCEPT !.kind = "disall", !.pc = "auth", !.bearer = bearer])
  /\ UNCHANGED <<Tables, now, env, client>>

\* prisma.device.findMany({isActive: true})
DisconnectAllFind(p) ==
  /\ At(p, "disall", "a_find")
  /\ req' = [req EXCEPT ![p] =
       StartLoop(req[p], {d \in devices : d.isActive}, "a_fw_mac", "a_devs")]
  /\ UNCHANGED <<Tables, now, env, client, pre, started>>

DisconnectAllRevokeMac(p, oc) ==
  RevokeNextMac(p, "disall", "a_fw_mac", "a_fw_ip", "a_devs", oc)

DisconnectAllRevokeIp(p, oc) ==
  RevokeNextIp(p, "disall", "a_fw_mac", "a_fw_ip", "a_devs", oc)

\* prisma.device.updateMany({isActive: true}, {isActive: false})
DisconnectAllDevicesOff(p) ==
  /\ At(p, "disall", "a_devs")
  /\ devices' = {[d EXCEPT !.isActive = FALSE] : d \in devices}
  /\ req' = [req EXCEPT ![p].pc = "a_conns"]
  /\ UNCHANGED <<users, sessions, connections, chain, auditLog, issued,
                 retired, revoked, now, env, client, pre, started>>

\* prisma.connection.updateMany({isActive: true}, {isActive: false})
DisconnectAllCloseConnections(p) ==
  /\ At(p, "disall", "a_conns")
  /\ connections' = [i \in 1..Len(connections) |->
                       [connections[i] EXCEPT !.isActive = FALSE]]
  /\ req' = [req EXCEPT ![p].pc = "a_audit"]
  /\ UNCHANGED <<users, devices, sessions, chain, auditLog, issued,
                 retired, revoked, now, env, client, pre, started>>

\* prisma.auditLog.create, then
\* res.json({message, disconnectedDevices: activeDevices.length})
DisconnectAllAudit(p) ==
  /\ At(p, "disall", "a_audit")
  /\ auditLog' = AuditRow("NETWORK_DISCONNECT_ALL", req[p].user)
  /\ req' = [req EXCEPT ![p].pc = "done",
               ![p].resp = [NoResp EXCEPT !.status = 200,
                              !.disconnectedDevices = req[p].seen]]
  /\ UNCHANGED <<users, devices, sessions, connections, chain, issued,
                 retired, revoked, now, env, client, pre, started>>

----------------------------------------------------------------------------
(* services/networkService.js, called on its own *)

StartGrant(p, lim, mac, ip) ==
  /\ Begin(p, lim,
           [Idle EXCEPT !.kind = "grant", !.pc = "g_check", !.mac = mac,
                        !.ip = ip])
  /\ UNCHANGED <<Tables, now, env, client>>

\* addDeviceToWhitelist: iptables -C ...; resolved: "Device already whitelisted"
GrantCheck(p, oc) ==
  /\ At(p, "grant", "g_check")
  /\ \E o \in oc :
       req' = [req EXCEPT ![p] =
         IF ~ExecRejects(o, CheckExit(chain, MacRule(req[p].mac), o))
         THEN [Reply(req[p], 200, "") EXCEPT !.outcomes = @ \cup {o}]
         ELSE [req[p] EXCEPT !.pc = "g_mac", !.outcomes = @ \cup {o}]]
  /\ UNCHANGED <<Tables, now, env, client, pre, started>>

\* addDeviceToWhitelist: iptables -I ... mac; a rejection is rethrown
GrantMac(p, oc) ==
  /\ At(p, "grant", "g_mac")
  /\ \E o \in oc :
       IF o = "ok" /\ Room(chain)
       THEN /\ chain' = InsertRule(chain, MacRule(req[p].mac))
            /\ req' = [req EXCEPT ![p].pc = "g_ip", ![p].outcomes = @ \cup {o}]
       ELSE /\ UNCHANGED chain
            /\ req' = [req EXCEPT ![p] =
                 [Reply(req[p], 500, "Command failed")
                    EXCEPT !.outcomes = @ \cup {o}, !.fwThrew = TRUE]]
  /\ UNCHANGED <<users, devices, sessions, connections, auditLog, issued,
                 retired, revoked, now, env, client, pre, started>>

\* addDeviceToWhitelist: iptables -I ... -s <ip>; resolved, or rethrown
GrantIp(p, oc) ==
  /\ At(p, "grant", "g_ip")
  /\ \E o \in oc :
       IF o = "ok" /\ Room(chain)
       THEN /\ chain' = InsertRule(chain, IpRule(req[p].ip))
            /\ req' = [req EXCEPT ![p] =
                 [Reply(req[p], 200, "") EXCEPT !.outcomes = @ \cup {o}]]
       ELSE /\ UNCHANGED chain
            /\ req' = [req EXCEPT ![p] =
                 [Reply(req[p], 500, "Command failed")
                    EXCEPT !.outcomes = @ \cup {o}, !.fwThrew = TRUE]]
  /\ UNCHANGED <<users, devices, sessions, connections, auditLog, issued,
                 retired, revoked, now, env, client, pre, started>>

StartRevoke(p, lim, mac, ip) ==
  /\ Begin(p, lim,
           [Idle EXCEPT !.kind = "revoke", !.pc = "v_mac", !.mac = mac,
                        !.ip = ip])
  /\ UNCHANGED <<Tables, now, env, client>>

RevokeMac(p, oc) == RemoveMacRule(p, "revoke", "v_mac", "v_ip", "v_end", oc)

RevokeIp(p, oc) == RemoveIpRule(p, "revoke", "v_ip", "v_end", oc)

\* removeDeviceFromWhitelist settles: resolved, or the rethrown rejection
RevokeSettle(p) ==
  /\ At(p, "revoke", "v_end")
  /\ req' = [req EXCEPT ![p] =
       IF req[p].fwThrew THEN Reply(req[p], 500, "Command failed")
       ELSE Reply(req[p], 200, "")]
  /\ UNCHANGED <<Tables, now, env, client, pre, started>>

----------------------------------------------------------------------------
(* The browser's ApiClient: response interceptor and token refresh *)

\* How many calls the page makes through axiosInstance.
MaxApiCalls == 3

ApiCalls == 1..MaxApiCalls

\* An axios request config before it is sent: no _retry mark, no header.
\* Tokens are numbered; 0 stands for an absent value (getItem gives null).
NoCall == [pc |-> "idle", retry |-> FALSE, sends |-> 0, status |-> 0,
           bearer |-> 0, awaits |-> 0, got |-> 0]

\* The client after setAuthTokens stored the pair of a login: no refresh
\* running, nothing sent.  posted holds the /auth/refresh posts not yet
\* answered, refreshes counts the posts made so far.
SignedIn == [accessToken |-> 1, refreshToken |-> 1, expired |-> FALSE,
             refreshPromise |-> 0, posted |-> {}, refreshes |-> 0,
             location |-> "/", calls |-> [c \in ApiCalls |-> NoCall]]

\* isRefreshTokenExpired: no stored refresh token, or Date.now() is at or
\* past its exp (an unreadable payload counts as expired too).
isRefreshTokenExpired(cl) == cl.refreshToken = 0 \/ cl.expired

\* handleLogout: both tokens leave localStorage, the page goes to /login.
handleLogout(cl) ==
  [cl EXCEPT !.accessToken = 0, !.refreshToken = 0, !.location = "/login"]

\* The request interceptor puts the stored access token, if any, in the
\* Authorization header; otherwise the header the config carries stays.
Authorization(cl, header) ==
  IF cl.accessToken # 0 THEN cl.accessToken ELSE header

\* A component calls the API: the request leaves with the stored token.
ApiCall(c) ==
  /\ client.calls[c].pc = "idle"
  /\ \A d \in ApiCalls : d < c => client.calls[d].pc # "idle"
  /\ client' = [client EXCEPT !.calls[c] =
       [@ EXCEPT !.pc = "sent", !.sends = 1,
                 !.bearer = Authorization(client, 0)]]
  /\ UNCHANGED <<Tables, now, env, req, pre, started>>

\* refreshAccessToken once no refresh is running: throw when no refresh
\* token is stored (the caller's catch logs out), else post the stored
\* refresh token and remember the promise.
PostRefresh(cl, c) ==
  IF cl.refreshToken = 0
  THEN [handleLogout(cl) EXCEPT !.calls[c].pc = "rejected"]
  ELSE [cl EXCEPT !.refreshes = @ + 1,
                  !.refreshPromise = cl.refreshes + 1,
                  !.posted = @ \cup {cl.refreshes + 1},
                  !.calls[c].pc = "waiting",
                  !.calls[c].awaits = cl.refreshes + 1]

\* refreshAccessToken as called for c: a running refresh is joined.
refreshAccessToken(cl, c) ==
  IF cl.refreshPromise # 0
  THEN [cl EXCEPT !.calls[c].pc = "waiting",
                  !.calls[c].awaits = cl.refreshPromise]
  ELSE PostRefresh(cl, c)

\* The response interceptor's branch for a 401 on a config not yet retried.
FirstUnauthorized(cl, c) ==
  IF isRefreshTokenExpired(cl)
  THEN [handleLogout(cl) EXCEPT !.calls[c].pc = "rejected"]
  ELSE refreshAccessToken([cl EXCEPT !.calls[c].retry = TRUE], c)

\* An interceptor that refreshes on every 401.
RetryAgain(cl, c) == FirstUnauthorized(cl, c)

\* The response interceptor's error handler for a 401.
Unauthorized(cl, c) ==
  IF ~cl.calls[c].retry
  THEN FirstUnauthorized(cl, c)
  ELSE [cl EXCEPT !.calls[c].pc = "rejected"]

\* The server answers call c: a 2xx passes through, a first 401 goes to
\* the refresh, every other error is shown and rejected.
ApiResponse(c, status) ==
  /\ client.calls[c].pc = "sent"
  /\ LET cl == [client EXCEPT !.calls[c].status = status]
     IN client' = CASE status = 200 -> [cl EXCEPT !.calls[c].pc = "resolved"]
                    [] status = 401 -> Unauthorized(cl, c)
                    [] OTHER -> [cl EXCEPT !.calls[c].pc = "rejected"]
  /\ UNCHANGED <<Tables, now, env, req, pre, started>>

\* A refresh whose promise outlives its answer.
KeepPromise(cl) == cl

\* .finally of the refresh promise.
ClearPromise(cl) == [cl EXCEPT !.refreshPromise = 0]

\* The calls awaiting refresh k.
Awaiting(cl, k) ==
  {c \in ApiCalls : cl.calls[c].pc = "waiting" /\ cl.calls[c].awaits = k}

\* /auth/refresh post k is answered with a new pair: .then stores it,
\* .finally clears the promise, and every call awaiting it is sent again
\* with the returned access token.
RefreshResolved(k) ==
  /\ k \in client.posted
  /\ LET stored == ClearPromise(
            [client EXCEPT !.accessToken = k + 1, !.refreshToken = k + 1,
                           !.expired = FALSE, !.posted = @ \ {k}])
     IN client' = [stored EXCEPT !.calls = [c \in ApiCalls |->
          IF c \in Awaiting(client, k)
          THEN [client.calls[c] EXCEPT
                  !.got = k + 1, !.pc = "sent",
                  !.sends = @ + 1,
                  !.bearer = Authorization(stored, k + 1)]
          ELSE client.calls[c]]]
  /\ UNCHANGED <<Tables, now, env, req, pre, started>>

\* /auth/refresh post k fails: .catch removes both tokens, .finally clears
\* the promise, and every call awaiting it logs out and is rejected.
RefreshRejected(k) ==
  /\ k \in client.posted
  /\ LET failed == ClearPromise(
            [client EXCEPT !.accessToken = 0, !.refreshToken = 0,
                           !.posted = @ \ {k}])
         out == IF Awaiting(client, k) # {} THEN handleLogout(failed)
                ELSE failed
     IN client' = [out EXCEPT !.calls = [c \in ApiCalls |->
          IF c \in Awaiting(client, k)
          THEN [client.calls[c] EXCEPT !.pc = "rejected"]
          ELSE client.calls[c]]]
  /\ UNCHANGED <<Tables, now, env, req, pre, started>>

\* Date.now() reaches the exp of the stored refresh token.
RefreshTokenExpires ==
  /\ client.refreshToken # 0
  /\ ~client.expired
  /\ client' = [client EXCEPT !.expired = TRUE]
  /\ UNCHANGED <<Tables, now, env, req, pre, started>>

----------------------------------------------------------------------------
(* Specifications *)

Passwords == {"secret", "wrong"}

InitWith(e) ==
  /\ users = [u \in Users |->
                [isActive |-> TRUE, password |-> "secret", isAdmin |-> u = 1]]
  /\ devices = {}
  /\ sessions = <<>>
  /\ connections = <<>>
  /\ chain = <<>>
  /\ auditLog = AuditRow("", NoUser)
  /\ issued = {}
  /\ retired = {}
  /\ revoked = {}
  /\ now = 0
  /\ env = e
  /\ req = [p \in Procs |-> Idle]
  /\ pre = [p \in Procs |-> NoSnap]
  /\ started = 0
  /\ client = SignedIn

\* the steps of the handlers in flight
LoginStep(p, oc) ==
  \/ LoginFindUser(p)
  \/ LoginCount(p)
  \/ LoginFindDevice(p)
  \/ LoginUpsertDevice(p)
  \/ LoginCreateSession(p)
  \/ LoginWhitelistCheck(p, oc)
  \/ LoginWhitelistMac(p, oc)
  \/ LoginWhitelistIp(p, oc)
  \/ LoginCreateConnection(p)
  \/ LoginAudit(p)

RefreshStep(p) ==
  \/ RefreshFindSession(p)
  \/ RefreshDeactivate(p)
  \/ RefreshUpdate(p)

LogoutStep(p) ==
  \/ LogoutSession(p)
  \/ LogoutFindUser(p)
  \/ LogoutAudit(p)

DisconnectStep(p, oc) ==
  \/ DisconnectFind(p)
  \/ DisconnectRemoveMac(p, oc)
  \/ DisconnectRemoveIp(p, oc)
  \/ DisconnectDeactivate(p)
  \/ DisconnectCloseConnections(p)
  \/ DisconnectAudit(p)

DeleteStep(p, oc) ==
  \/ DeleteFind(p)
  \/ DeleteRemoveMac(p, oc)
  \/ DeleteRemoveIp(p, oc)
  \/ DeleteDevice(p)
  \/ DeleteAudit(p)

Step(p, oc) ==
  \/ LoginStep(p, oc)
  \/ RefreshStep(p)
  \/ LogoutStep(p)
  \/ Authenticate(p)
  \/ DisconnectStep(p, oc)
  \/ DeleteStep(p, oc)
  \/ Finish(p)

\* a request arrives
Arrive(p, lim, logins, macs, ips) ==
  \/ \E l \in logins, pw \in Passwords, m \in macs, a \in ips :
       StartLogin(p, lim, l, pw, m, a)
  \/ \E t \in issued \cup {NoToken} : StartRefresh(p, lim, t)
  \/ \E t \in issued \cup {NoToken}, b \in issued \cup {NoToken} :
       StartLogout(p, lim, t, b)
  \/ \E b \in issued \cup {NoToken}, d \in DeviceIds :
       StartDisconnect(p, lim, b, d)
  \/ \E b \in issued \cup {NoToken}, d \in DeviceIds :
       StartDelete(p, lim, b, d)

Seconds(n) == {k * MsPerSecond : k \in 0..n}

Init == InitWith(1)

\* Requests overlap: up to MaxInFlight handlers run at once, their steps
\* interleaved at every await; MaxRequests requests in all, from one account.
\* MAX_DEVICES_PER_USER is set to 1.
Next ==
  \/ \E p \in Procs :
       \/ Arrive(p, Load(MaxInFlight, MaxRequests, FALSE),
                 0..1, 1..NumMacs, 1..1)
       \/ Step(p, {"ok"})
  \/ Tick(Instants(MaxHalves))

Spec == Init /\ [][Next]_vars

\* One request at a time, each run to its response before the next arrives;
\* MaxSeqRequests requests in all, from every account, fingerprint and
\* address; an account, fingerprint or address no device row has yet is the
\* next unused one. MAX_DEVICES_PER_USER is set to 1.
Min(a, b) == IF a <= b THEN a ELSE b
KnownOwners == {d.userId : d \in devices}
KnownMacs == {d.macAddress : d \in devices}
KnownIps == {d.ipAddress : d \in devices}

NextSeq ==
  \/ \E p \in {1} :
       \/ Arrive(p, Load(1, MaxSeqRequests, TRUE),
                 0..Min(NumUsers, Cardinality(KnownOwners) + 1),
                 1..Min(NumMacs, Cardinality(KnownMacs) + 1),
                 1..Min(NumIps, Cardinality(KnownIps) + 1))
       \/ Step(p, {"ok"})
  \/ Tick(Instants(MaxHalves))

SpecSeq == Init /\ [][NextSeq]_vars

\* One account under the default limit of 4 devices: logins with the right
\* password, one at a time and any number of them, from up to QuotaMacs
\* fingerprints (a fingerprint not seen before is the next unused one), and
\* disconnects of the account's devices.
ArriveQuota(p, lim) ==
  \/ \E m \in 1..QuotaMacs :
       /\ m <= Cardinality(KnownMacs) + 1
       /\ StartLogin(p, lim, 1, "secret", m, 1)
  \/ \E b \in issued, d \in DeviceIds : StartDisconnect(p, lim, b, d)

NextQuota ==
  \/ \E p \in {1} :
       \/ ArriveQuota(p, Load(1, 0, TRUE))
       \/ LoginStep(p, {"ok"})
       \/ Authenticate(p)
       \/ DisconnectStep(p, {"ok"})
       \/ Finish(p)
  \/ Tick(Seconds(MaxSeconds))

SpecQuota == InitWith(0) /\ [][NextQuota]_vars

\* The account routes and the admin routes on users
PasswordStep(p) ==
  \/ PasswordFind(p)
  \/ PasswordUpdate(p)
  \/ PasswordSessions(p)
  \/ PasswordAudit(p)

ResetStep(p) ==
  \/ ResetFind(p)
  \/ ResetUpdate(p)
  \/ ResetSessions(p)
  \/ ResetAudit(p)

UpdateStep(p, oc) ==
  \/ UpdateFind(p)
  \/ UpdateUser(p)
  \/ UpdateSessions(p)
  \/ UpdateFindDevices(p)
  \/ UpdateRevokeMac(p, oc)
  \/ UpdateRevokeIp(p, oc)
  \/ UpdateDevicesOff(p)
  \/ UpdateCloseConnections(p)
  \/ UpdateAudit(p)

DeleteUserStep(p, oc) ==
  \/ DeleteUserFind(p)
  \/ DeleteUserRevokeMac(p, oc)
  \/ DeleteUserRevokeIp(p, oc)
  \/ DeleteUser(p)
  \/ DeleteUserAudit(p)

DisconnectAllStep(p, oc) ==
  \/ DisconnectAllFind(p)
  \/ DisconnectAllRevokeMac(p, oc)
  \/ DisconnectAllRevokeIp(p, oc)
  \/ DisconnectAllDevicesOff(p)
  \/ DisconnectAllCloseConnections(p)
  \/ DisconnectAllAudit(p)

\* One request at a time, MaxAdminRequests in all: logins of every account
\* (user 1 is the administrator), refreshes, password changes, and the
\* administrator's password resets, activations, deactivations and deletions
\* of accounts; an account or fingerprint no device row has yet is the next
\* unused one. The clock can pass the lifetime of a session. The firewall
\* commands succeed.
NextOwners == 0..Min(NumUsers, Cardinality(KnownOwners) + 1)

ArriveAdmin(p, lim) ==
  \/ \E l \in NextOwners, pw \in Passwords,
        m \in 1..Min(NumMacs, Cardinality(KnownMacs) + 1) :
       StartLogin(p, lim, l, pw, m, 1)
  \/ \E t \in issued : StartRefresh(p, lim, t)
  \/ \E b \in issued, pw \in Passwords :
       StartPassword(p, lim, b, pw, "changed")
  \/ \E b \in issued, u \in NextOwners \ {NoUser} :
       StartReset(p, lim, b, u, "generated")
  \/ \E b \in issued, u \in NextOwners \ {NoUser}, a \in BOOLEAN :
       StartUpdate(p, lim, b, u, a)
  \/ \E b \in issued, u \in NextOwners \ {NoUser} :
       StartDeleteUser(p, lim, b, u)

NextAdmin ==
  \/ \E p \in {1} :
       \/ ArriveAdmin(p, Load(1, MaxAdminRequests, TRUE))
       \/ LoginStep(p, {"ok"})
       \/ RefreshStep(p)
       \/ Authenticate(p)
       \/ PasswordStep(p)
       \/ ResetStep(p)
       \/ UpdateStep(p, {"ok"})
       \/ DeleteUserStep(p, {"ok"})
       \/ Finish(p)
  \/ Tick({MsPerSecond \div 2, SessionTTLDays * MsPerDay})

SpecAdmin == Init /\ [][NextAdmin]_vars


----------------------------------------------------------------------------
(* Properties *)

Done(p, kind) == req[p].kind = kind /\ req[p].pc = "done"

\* the login in slot p names an active account and gives its password
ValidCredentials(p) ==
  /\ req[p].login \in DOMAIN users
  /\ users[req[p].login].isActive
  /\ comparePassword(req[p].password, users[req[p].login].password)

\* C1: for every user the number of devices with isActive = true never
\* exceeds the configured maximum.
QuotaInvariant ==
  \A u \in Users : ActiveDeviceCount(u) <= maxDevices

\* C2: check-and-admit is atomic: whenever a login inserts a Device row for
\* a fingerprint not registered before, the user it inserts it for has, with
\* the new row, no more active devices than the maximum, whatever other
\* logins of that user are in flight.
AtomicCheckAndAdmit ==
  [][\A u \in Users :
       (\E d \in devices' : d.userId = u /\ d.id \notin DeviceIds)
         => Cardinality(ActiveIn(devices', u)) <= maxDevices]_vars

\* C3: with requests one after the other, a login with valid credentials
\* from a fingerprint that has no device record succeeds if and only if the
\* user's active-device count is below the maximum, and a rejection reports
\* that count and the maximum.
SequentialAdmission ==
  \A p \in Procs :
    (/\ Done(p, "login")
     /\ pre[p].taken
     /\ ValidCredentials(p)
     /\ \A d \in pre[p].devices : d.macAddress # req[p].mac)
    => LET before == Cardinality(ActiveIn(pre[p].devices, req[p].login))
       IN  /\ (req[p].resp.status = 200) <=> (before < maxDevices)
           /\ before >= maxDevices =>
                /\ req[p].resp.status = 403
                /\ req[p].resp.activeDevices = before
                /\ req[p].resp.maxDevices = maxDevices

\* C4: a login rejected for bad credentials (401) or for the device limit
\* (403) leaves every table and the FORWARD chain as they were when the
\* request began, and hands out no token pair and no device.
RejectedLoginChangesNothing ==
  \A p \in Procs :
    (Done(p, "login") /\ pre[p].taken /\ req[p].resp.status \in {401, 403})
    => /\ devices = pre[p].devices
       /\ sessions = pre[p].sessions
       /\ connections = pre[p].connections
       /\ chain = pre[p].chain
       /\ issued = pre[p].issued
       /\ req[p].resp.tokens = NoToken
       /\ req[p].resp.deviceId = NoDevice

\* a login has been turned away at the device limit while the user's device
\* is registered, whitelisted and connected
WitnessRejectedLogin ==
  \E p \in Procs :
    /\ Done(p, "login")
    /\ req[p].resp.status = 403
    /\ ActiveIn(devices, req[p].user) # {}
    /\ chain # <<>>
    /\ connections # <<>>

\* C5: with requests one after the other, a login with valid credentials
\* from a fingerprint that already has a device record is never rejected for
\* the device limit and reuses the record: no row is added or removed, every
\* other row is untouched, and the record keeps its id and owner, takes the
\* address of the request and the current time as last-seen, and is active.
ReloginReusesDevice ==
  \A p \in Procs :
    (/\ Done(p, "login")
     /\ pre[p].taken
     /\ ValidCredentials(p)
     /\ \E d \in pre[p].devices : d.macAddress = req[p].mac)
    => LET old == CHOOSE d \in pre[p].devices : d.macAddress = req[p].mac
       IN  /\ req[p].resp.status # 403
           /\ devices = (pre[p].devices \ {old}) \cup
                {[old EXCEPT !.ipAddress = req[p].ip, !.lastSeen = now,
                             !.isActive = TRUE]}

\* a login has reused a record that was inactive and had another address
WitnessRelogin ==
  \E p \in Procs :
    /\ Done(p, "login")
    /\ req[p].resp.status = 200
    /\ pre[p].taken
    /\ \E d \in pre[p].devices :
         /\ d.macAddress = req[p].mac
         /\ ~d.isActive
         /\ d.ipAddress # req[p].ip
         /\ d.lastSeen < now

\* C6: rotation is single-use: with requests one after the other, a refresh
\* never succeeds with a credential that an earlier successful rotation had
\* already superseded.
RotationSingleUse ==
  \A p \in Procs :
    (Done(p, "refresh") /\ pre[p].taken /\ req[p].resp.status = 200)
    => req[p].tok \notin pre[p].retired

\* C7: of the refresh attempts that present the same credential at once, one
\* succeeds: a rotation is stored and answered with 200 only while the
\* session still holds the credential that was presented.
RotationComparesAndSwaps ==
  [][\A p \in Procs :
       (/\ At(p, "refresh", "r_update")
        /\ req'[p].pc = "done"
        /\ req'[p].resp.status = 200)
       => sessions[req[p].session].refreshToken = req[p].tok]_vars

\* C8: every token pair a login or a rotation returns differs from every
\* pair returned before; in particular a rotation returns a refresh
\* credential different from the one presented.
FreshRefreshCredential ==
  \A p \in Procs :
    (Done(p, "login") \/ Done(p, "refresh"))
    /\ pre[p].taken /\ req[p].resp.tokens # NoToken
    => /\ req[p].resp.tokens \notin pre[p].issued
       /\ req[p].resp.tokens # req[p].tok

\* C9: after logout(refreshCredential) has answered, every session that held
\* the credential is inactive, the device its login was for is inactive, the
\* chain has no accept rule for that device's address or fingerprint, and
\* the device has no open connection.
LogoutRevokesAccess ==
  \A p \in Procs :
    (Done(p, "logout") /\ pre[p].taken)
    => \A i \in 1..Len(pre[p].sessions) :
         pre[p].sessions[i].refreshToken = req[p].tok
         => /\ ~sessions[i].isActive
            /\ \A d \in DeviceById(sessions[i].device) :
                 /\ ~d.isActive
                 /\ ~RuleExists(MacRule(d.macAddress))
                 /\ ~RuleExists(IpRule(d.ipAddress))
                 /\ \A k \in 1..Len(connections) :
                      connections[k].deviceId = d.id
                        => ~connections[k].isActive

\* C10: in the logout and disconnect flows the firewall revoke comes first:
\* a step of such a request that deactivates a session or closes a connection
\* is taken only after the request has attempted the firewall revoke, and a
\* connection is closed only once no session of a login for its device is
\* left active.
RevokeOrder ==
  [][\A p \in Procs :
       req[p].kind \in {"logout", "disconnect"} /\ req'[p] # req[p]
       => /\ (\E i \in SessionIds : sessions[i].isActive /\ ~sessions'[i].isActive)
               => req[p].fwTried
          /\ \A k \in 1..Len(connections) :
               (connections[k].isActive /\ ~connections'[k].isActive)
               => /\ req[p].fwTried
                  /\ \A i \in SessionIds :
                       sessions[i].device = connections[k].deviceId
                         => ~sessions[i].isActive]_vars

----------------------------------------------------------------------------
(* Properties of the account and admin routes *)

\* a password change, an admin password reset or an admin deactivation has
\* answered 200
RevokedAll(p) ==
  /\ req[p].pc = "done"
  /\ req[p].resp.status = 200
  /\ \/ req[p].kind \in {"password", "reset"}
     \/ req[p].kind = "update" /\ ~req[p].isActive

\* C11: when a password change, an admin password reset or an admin
\* deactivation of a user has completed, every session of that user is
\* inactive, and no refresh succeeds with a refresh credential that was issued
\* to the user before the operation.
SessionRevocation ==
  \A p \in Procs :
    /\ RevokedAll(p) =>
         \A i \in SessionIds :
           sessions[i].userId = req[p].target => ~sessions[i].isActive
    /\ Done(p, "refresh") /\ req[p].resp.status = 200 =>
         req[p].tok \notin pre[p].revoked

\* a refresh is refused for a credential that is stored, unexpired and was
\* never rotated or logged out, after its owner's sessions were revoked
WitnessSessionRevocation ==
  \E p \in Procs :
    /\ Done(p, "refresh")
    /\ req[p].resp.status = 401
    /\ req[p].tok \in pre[p].revoked \ pre[p].retired
    /\ verifyRefreshToken(req[p].tok, now)
    /\ \E i \in SessionIds :
         /\ sessions[i].refreshToken = req[p].tok
         /\ sessions[i].expiresAt > now
         /\ \E j \in SessionIds \ {i} : sessions[j].userId = sessions[i].userId

\* C12: the validation of an access credential lets a request through only
\* when the account it names exists and is active at that moment; for a
\* deactivated or deleted account the request is answered 401, however well
\* signed and fresh the credential is.
ValidatesLiveAccounts ==
  [][\A p \in Procs :
       req[p].pc = "auth" /\ req'[p] # req[p] =>
         IF /\ req[p].bearer.userId \in DOMAIN users
            /\ users[req[p].bearer.userId].isActive
         THEN TRUE
         ELSE req'[p].pc = "done" /\ req'[p].resp.status = 401]_vars

\* a signed, unexpired credential of a deleted account has been refused
WitnessValidatesLiveAccounts ==
  \E p \in Procs :
    /\ req[p].pc = "done"
    /\ req[p].resp.error = "Access denied. User not found or inactive."
    /\ req[p].bearer \in issued
    /\ verifyAccessToken(req[p].bearer, now)
    /\ req[p].bearer.userId \notin DOMAIN users

\* C13: a login that fails because the identifier is unknown, because the
\* account is inactive or deleted, or because the password is wrong is
\* answered with one and the same response, status 401 and the error
\* "Invalid credentials", so the response does not tell the causes apart.
LoginFailureUniform ==
  \A p \in Procs :
    Done(p, "login") /\ ~ValidCredentials(p) =>
      req[p].resp = [NoResp EXCEPT !.status = 401,
                                   !.error = "Invalid credentials"]

\* a login with the right password of a deactivated account has been refused
WitnessLoginFailureUniform ==
  \E p \in Procs :
    /\ Done(p, "login")
    /\ req[p].resp.status = 401
    /\ req[p].login \in DOMAIN users
    /\ ~users[req[p].login].isActive
    /\ comparePassword(req[p].password, users[req[p].login].password)

----------------------------------------------------------------------------
(* The routes that drive the firewall, with commands that can fail *)

\* One request at a time, MaxFaultRequests in all: logins with the right
\* password, device disconnects and deletions, the administrator's
\* deactivations and deletions of accounts, and disconnect-all. Each iptables
\* command succeeds, exits non-zero, or cannot be spawned. An account,
\* fingerprint or address no device row has yet is the next unused one.
ArriveFault(p, lim) ==
  \/ \E l \in NextOwners \ {NoUser},
        m \in 1..Min(NumMacs, Cardinality(KnownMacs) + 1),
        a \in 1..Min(NumIps, Cardinality(KnownIps) + 1) :
       StartLogin(p, lim, l, "secret", m, a)
  \/ \E b \in issued, d \in DeviceIds : StartDisconnect(p, lim, b, d)
  \/ \E b \in issued, d \in DeviceIds : StartDelete(p, lim, b, d)
  \/ \E b \in issued, u \in NextOwners \ {NoUser} :
       StartUpdate(p, lim, b, u, FALSE)
  \/ \E b \in issued, u \in NextOwners \ {NoUser} :
       StartDeleteUser(p, lim, b, u)
  \/ \E b \in issued : StartDisconnectAll(p, lim, b)

NextFault ==
  \/ \E p \in {1} :
       \/ ArriveFault(p, Load(1, MaxFaultRequests, TRUE))
       \/ LoginStep(p, ExecOutcomes)
       \/ Authenticate(p)
       \/ DisconnectStep(p, ExecOutcomes)
       \/ DeleteStep(p, ExecOutcomes)
       \/ UpdateStep(p, ExecOutcomes)
       \/ DeleteUserStep(p, ExecOutcomes)
       \/ DisconnectAllStep(p, ExecOutcomes)
       \/ Finish(p)

SpecFault == Init /\ [][NextFault]_vars

----------------------------------------------------------------------------
(* Properties of the routes that drive the firewall *)

\* C14: a login whose firewall grant failed still succeeds: it answers 200
\* with the token pair, the device is active, the session is stored and
\* active, and a connection of the device is open.
LoginSurvivesGrantFailure ==
  \A p \in Procs :
    Done(p, "login") /\ req[p].fwThrew =>
      /\ req[p].resp.status = 200
      /\ req[p].resp.tokens # NoToken
      /\ \E d \in DeviceById(req[p].device) : d.isActive
      /\ \E i \in SessionsByToken(req[p].resp.tokens) :
           sessions[i].isActive /\ sessions[i].userId = req[p].user
      /\ \E i \in 1..Len(connections) :
           /\ connections[i].deviceId = req[p].device
           /\ connections[i].isActive

\* a login has answered 200 although no accept rule of its device was added
WitnessLoginSurvivesGrantFailure ==
  \E p \in Procs :
    /\ Done(p, "login")
    /\ req[p].fwThrew
    /\ req[p].resp.status = 200
    /\ ~RuleExists(MacRule(req[p].mac))
    /\ chain = pre[p].chain

\* the handlers that revoke devices at the firewall
RevokingKinds == {"disconnect", "delete", "update", "deluser", "disall"}

\* the devices a handler is to revoke, as they were when the request arrived
Targeted(p) ==
  IF req[p].kind \in {"disconnect", "delete"}
    THEN {d.id : d \in {e \in pre[p].devices : e.id = req[p].device}}
  ELSE IF req[p].kind \in {"update", "deluser"}
    THEN {d.id : d \in {e \in pre[p].devices : e.userId = req[p].target}}
  ELSE {d.id : d \in pre[p].devices}

\* C15: a firewall revoke that fails during a device disconnect, a device
\* deletion, an admin deactivation or deletion of a user, or disconnect-all
\* does not stop the handler: it answers 200, every device it was to revoke
\* is inactive or deleted, and no connection of such a device is open.
RevokeFailureNotBlocking ==
  \A p \in Procs :
    req[p].pc = "done" /\ req[p].kind \in RevokingKinds /\ req[p].fwThrew =>
      /\ req[p].resp.status = 200
      /\ \A id \in Targeted(p) :
           /\ \A d \in DeviceById(id) : ~d.isActive
           /\ \A i \in 1..Len(connections) :
                connections[i].deviceId = id => ~connections[i].isActive

\* the active devices of the user an admin request names, as they were when
\* the request arrived, whose revoke ran both commands without a failure
RevokedCleanly(p) ==
  {d \in ActiveIn(pre[p].devices, req[p].target) :
     d.id \notin req[p].threw \cup req[p].notRun}

\* C16: when an admin deactivation of user U has answered, every device of U
\* is inactive, every session of U is inactive and every connection of U is
\* closed, whichever firewall revokes failed; and for every device whose
\* revoke did not fail the filter holds no accept rule, neither for its
\* fingerprint nor for its address.
DeactivateEndState ==
  \A p \in Procs :
    Done(p, "update") /\ ~req[p].isActive /\ req[p].resp.status = 200 =>
      /\ \A d \in devices : d.userId = req[p].target => ~d.isActive
      /\ \A i \in SessionIds :
           sessions[i].userId = req[p].target => ~sessions[i].isActive
      /\ \A i \in 1..Len(connections) :
           connections[i].userId = req[p].target => ~connections[i].isActive
      /\ \A d \in RevokedCleanly(p) :
           /\ ~RuleExists(MacRule(d.macAddress))
           /\ ~RuleExists(IpRule(d.ipAddress))

\* C17: the answer of an admin deactivation carries a failure count, equal to
\* the number of devices whose firewall revoke failed.
DeactivateReportsFailures ==
  \A p \in Procs :
    Done(p, "update") /\ ~req[p].isActive /\ req[p].resp.status = 200 =>
      req[p].resp.failures = Cardinality(req[p].threw)

\* C18: disconnect-all runs a revoke for every device that was active, also
\* after a revoke has failed, and the count it answers with is the number of
\* revokes that succeeded.
DisconnectAllCountsSuccesses ==
  \A p \in Procs :
    Done(p, "disall") /\ req[p].resp.status = 200 =>
      /\ req[p].todo = <<>>
      /\ req[p].seen = Cardinality({d \in pre[p].devices : d.isActive})
      /\ req[p].resp.disconnectedDevices =
           req[p].seen - Cardinality(req[p].threw)

----------------------------------------------------------------------------
(* The firewall driver on its own *)

\* addDeviceToWhitelist and removeDeviceFromWhitelist called one at a time,
\* MaxCalls calls in all, for every fingerprint and address, on a chain that
\* starts empty. Each iptables command succeeds, exits non-zero, or cannot
\* be spawned.
NextFirewall ==
  \E p \in {1} :
    \/ \E m \in 1..NumMacs, a \in 1..NumIps :
         StartGrant(p, Load(1, MaxCalls, TRUE), m, a)
    \/ \E m \in 1..NumMacs, a \in 1..NumIps :
         StartRevoke(p, Load(1, MaxCalls, TRUE), m, a)
    \/ GrantCheck(p, ExecOutcomes)
    \/ GrantMac(p, ExecOutcomes)
    \/ GrantIp(p, ExecOutcomes)
    \/ RevokeMac(p, ExecOutcomes)
    \/ RevokeIp(p, ExecOutcomes)
    \/ RevokeSettle(p)
    \/ Finish(p)

SpecFirewall == Init /\ [][NextFirewall]_vars

RevokeSafeOnAbsence ==
  \A p \in Procs :
    /\ Done(p, "revoke")
    /\ "spawn" \notin req[p].outcomes
    /\ CountIn(pre[p].chain, MacRule(req[p].mac)) = 0
    /\ CountIn(pre[p].chain, IpRule(req[p].ip)) = 0
    => req[p].resp.status = 200 /\ chain = pre[p].chain

\* a revoke has returned for a fingerprint and an address without a rule,
\* on a chain that holds other rules
WitnessRevokeSafeOnAbsence ==
  \E p \in Procs :
    /\ Done(p, "revoke")
    /\ req[p].outcomes = {"ok"}
    /\ req[p].resp.status = 200
    /\ CountIn(pre[p].chain, MacRule(req[p].mac)) = 0
    /\ CountIn(pre[p].chain, IpRule(req[p].ip)) = 0
    /\ pre[p].chain # <<>>
    /\ chain = pre[p].chain

----------------------------------------------------------------------------
(* The firewall driver under overlapping calls *)

\* addDeviceToWhitelist and removeDeviceFromWhitelist called from up to
\* MaxInFlight callers at once, their commands interleaved at every await,
\* MaxRequests calls in all. Every iptables command succeeds.
NextRace ==
  \E p \in Procs :
    \/ \E m \in 1..NumMacs, a \in 1..NumIps :
         StartGrant(p, Load(MaxInFlight, MaxRequests, TRUE), m, a)
    \/ \E m \in 1..NumMacs, a \in 1..NumIps :
         StartRevoke(p, Load(MaxInFlight, MaxRequests, TRUE), m, a)
    \/ GrantCheck(p, {"ok"})
    \/ GrantMac(p, {"ok"})
    \/ GrantIp(p, {"ok"})
    \/ RevokeMac(p, {"ok"})
    \/ RevokeIp(p, {"ok"})
    \/ RevokeSettle(p)
    \/ Finish(p)

SpecRace == Init /\ [][NextRace]_vars

\* the call in slot p began with no other call in flight and no call has
\* begun since
RanAlone(p) ==
  pre[p].taken /\ pre[p].busy = {} /\ started = pre[p].started + 1

\* C21: however grants and revokes overlap, the chain never holds more than
\* one accept rule for a fingerprint, and a revoke that then runs on its own
\* leaves no accept rule for its fingerprint.
SerializedFirewall ==
  /\ \A m \in 1..NumMacs : CountIn(chain, MacRule(m)) <= 1
  /\ \A p \in Procs :
       Done(p, "revoke") /\ req[p].resp.status = 200 /\ RanAlone(p) =>
         CountIn(chain, MacRule(req[p].mac)) = 0

----------------------------------------------------------------------------
(* services/networkService.js: initializeCaptivePortal and setupNATRules *)

\* the accept rules of the portal, in the order their -I commands run:
\* -i lo, -o lo, state ESTABLISHED/RELATED, udp 53, tcp 53, tcp 80, tcp 443,
\* tcp 5000
BaseRule(k) == [type |-> "base", key |-> k]

\* iptables -A FORWARD -j DROP
DropRule == [type |-> "drop", key |-> 0]

\* the two FORWARD rules of setupNATRules: interface -> wlan0 for
\* RELATED/ESTABLISHED, and wlan0 -> interface
NatRule(k) == [type |-> "nat", key |-> k]

\* iptables -A FORWARD <rule>
AppendRule(c, rule) == Append(c, rule)

\* iptables -F FORWARD
FlushChain(c) == <<>>

\* a rejected execAsync inside try { } catch (error) { throw error }
Thrown(r, o) ==
  [Reply(r, 500, "Command failed") EXCEPT !.outcomes = @ \cup {o},
                                          !.fwThrew = TRUE]

StartInitialize(p, lim) ==
  /\ Begin(p, lim, [Idle EXCEPT !.kind = "init", !.pc = "i_flush"])
  /\ UNCHANGED <<Tables, now, env, client>>

\* the same where the chain is not emptied first
InitializeKeep(p, oc) ==
  /\ At(p, "init", "i_flush")
  /\ \E o \in oc :
       IF o = "ok"
       THEN /\ chain' = chain
            /\ req' = [req EXCEPT ![p].pc = "i_insert", ![p].step = 1,
                                  ![p].outcomes = @ \cup {o}]
       ELSE /\ UNCHANGED chain
            /\ req' = [req EXCEPT ![p] = Thrown(req[p], o)]
  /\ UNCHANGED <<users, devices, sessions, connections, auditLog, issued,
                 retired, revoked, now, env, client, pre, started>>

\* await execAsync('iptables -F FORWARD')
InitializeFlush(p, oc) ==
  /\ At(p, "init", "i_flush")
  /\ \E o \in oc :
       IF o = "ok"
       THEN /\ chain' = FlushChain(chain)
            /\ req' = [req EXCEPT ![p].pc = "i_insert", ![p].step = 1,
                                  ![p].outcomes = @ \cup {o}]
       ELSE /\ UNCHANGED chain
            /\ req' = [req EXCEPT ![p] = Thrown(req[p], o)]
  /\ UNCHANGED <<users, devices, sessions, connections, auditLog, issued,
                 retired, revoked, now, env, client, pre, started>>

\* await execAsync('iptables -I FORWARD ... -j ACCEPT'), eight times
InitializeInsert(p, oc) ==
  /\ At(p, "init", "i_insert")
  /\ \E o \in oc :
       IF o = "ok"
       THEN /\ chain' = InsertRule(chain, BaseRule(req[p].step))
            /\ req' = [req EXCEPT
                 ![p].pc = IF req[p].step = BaseInserts THEN "i_drop"
                           ELSE "i_insert",
                 ![p].step = @ + 1,
                 ![p].outcomes = @ \cup {o}]
       ELSE /\ UNCHANGED chain
            /\ req' = [req EXCEPT ![p] = Thrown(req[p], o)]
  /\ UNCHANGED <<users, devices, sessions, connections, auditLog, issued,
                 retired, revoked, now, env, client, pre, started>>

\* await execAsync('iptables -A FORWARD -j DROP'), and the function returns
InitializeDrop(p, oc) ==
  /\ At(p, "init", "i_drop")
  /\ \E o \in oc :
       IF o = "ok"
       THEN /\ chain' = AppendRule(chain, DropRule)
            /\ req' = [req EXCEPT ![p] =
                 [Reply(req[p], 200, "") EXCEPT !.outcomes = @ \cup {o}]]
       ELSE /\ UNCHANGED chain
            /\ req' = [req EXCEPT ![p] = Thrown(req[p], o)]
  /\ UNCHANGED <<users, devices, sessions, connections, auditLog, issued,
                 retired, revoked, now, env, client, pre, started>>

StartSetupNAT(p, lim) ==
  /\ Begin(p, lim, [Idle EXCEPT !.kind = "nat", !.pc = "n_enable"])
  /\ UNCHANGED <<Tables, now, env, client>>

\* echo 1 > /proc/sys/net/ipv4/ip_forward, then iptables -t nat -A
\* POSTROUTING: neither touches the FORWARD chain
NatEnable(p, oc) ==
  /\ At(p, "nat", "n_enable")
  /\ \E o \in oc :
       req' = [req EXCEPT ![p] =
         IF o = "ok" THEN [req[p] EXCEPT !.pc = "n_forward", !.step = 1,
                                         !.outcomes = @ \cup {o}]
         ELSE Thrown(req[p], o)]
  /\ UNCHANGED <<Tables, now, env, client, pre, started>>

\* iptables -A FORWARD -i <interface> -o wlan0 ... -j ACCEPT, then
\* iptables -A FORWARD -i wlan0 -o <interface> -j ACCEPT
NatForward(p, oc) ==
  /\ At(p, "nat", "n_forward")
  /\ \E o \in oc :
       IF o = "ok"
       THEN /\ chain' = AppendRule(chain, NatRule(req[p].step))
            /\ req' = [req EXCEPT ![p] =
                 IF req[p].step = NatForwards
                 THEN [Reply(req[p], 200, "") EXCEPT !.outcomes = @ \cup {o}]
                 ELSE [req[p] EXCEPT !.step = @ + 1,
                                     !.outcomes = @ \cup {o}]]
       ELSE /\ UNCHANGED chain
            /\ req' = [req EXCEPT ![p] = Thrown(req[p], o)]
  /\ UNCHANGED <<users, devices, sessions, connections, auditLog, issued,
                 retired, revoked, now, env, client, pre, started>>

\* The portal set up and devices granted by direct calls, one at a time,
\* MaxCalls calls in all. Each command succeeds, exits non-zero, or cannot
\* be spawned.
NextPortal ==
  \E p \in {1} :
    \/ StartInitialize(p, Load(1, MaxCalls, TRUE))
    \/ StartSetupNAT(p, Load(1, MaxCalls, TRUE))
    \/ \E m \in 1..NumMacs, a \in 1..NumIps :
         StartGrant(p, Load(1, MaxCalls, TRUE), m, a)
    \/ InitializeFlush(p, ExecOutcomes)
    \/ InitializeInsert(p, ExecOutcomes)
    \/ InitializeDrop(p, ExecOutcomes)
    \/ NatEnable(p, ExecOutcomes)
    \/ NatForward(p, ExecOutcomes)
    \/ GrantCheck(p, ExecOutcomes)
    \/ GrantMac(p, ExecOutcomes)
    \/ GrantIp(p, ExecOutcomes)
    \/ Finish(p)

SpecPortal == Init /\ [][NextPortal]_vars

\* the rules a call left in the chain that initializeCaptivePortal does not
\* manage: the accept rules of grants and the forwarding rules of the NAT
\* setup
Unmanaged(c) ==
  {c[i] : i \in {j \in 1..Len(c) : c[j].type \in {"mac", "ip", "nat"}}}

\* C22: when initialize has returned, every accept rule a grant inserted and
\* every forwarding rule the NAT setup added before it is still in the chain.
InitializeKeepsOtherRules ==
  \A p \in Procs :
    Done(p, "init") /\ req[p].resp.status = 200 =>
      \A rule \in Unmanaged(pre[p].chain) : CountIn(chain, rule) > 0

\* the base policy: the eight accept rules, the last inserted first, then
\* the default deny
BaseChain ==
  [i \in 1..BaseInserts |-> BaseRule(BaseInserts + 1 - i)] \o <<DropRule>>

\* C23: whatever the chain held before, an initialize that returns leaves
\* exactly the base policy, each rule once and in the same order; so an
\* initialize on the chain an initialize left changes nothing.
InitializeIdempotent ==
  \A p \in Procs :
    Done(p, "init") /\ req[p].resp.status = 200 =>
      /\ chain = BaseChain
      /\ \A i, j \in 1..Len(chain) : chain[i] = chain[j] => i = j
      /\ pre[p].chain = BaseChain => chain = pre[p].chain

\* an initialize has returned on the chain an earlier initialize left
WitnessInitializeIdempotent ==
  \E p \in Procs :
    /\ Done(p, "init")
    /\ req[p].resp.status = 200
    /\ pre[p].chain = BaseChain
    /\ chain = pre[p].chain

----------------------------------------------------------------------------
(* Order of the steps of a login *)

\* the connection record of the login in slot p has been created
Opened(p) == Len(connections) > Len(pre[p].connections)

\* C24: in a login, the session is stored (with the pair just generated)
\* before any firewall command runs, the firewall grant is attempted before
\* the connection record is opened, and the step that writes the audit entry
\* and answers changes no other table and comes after all of them.
LoginStepOrder ==
  [][\A p \in Procs :
       req[p].kind = "login" /\ req'[p].kind = "login" /\ pre[p].taken =>
         /\ sessions' # sessions =>
              /\ ~req[p].fwTried /\ ~Opened(p)
              /\ chain = pre[p].chain
              /\ req'[p].newTok # NoToken
         /\ (req'[p].fwTried /\ ~req[p].fwTried) \/ chain' # chain =>
              req[p].session # NoSession /\ ~Opened(p)
         /\ connections' # connections =>
              req[p].session # NoSession /\ req[p].fwTried
         /\ req'[p].pc = "done" /\ req'[p].resp.status = 200 =>
              /\ req[p].session # NoSession /\ req[p].fwTried /\ Opened(p)
              /\ auditLog' = AuditRow("LOGIN", req[p].user)
              /\ UNCHANGED <<users, devices, sessions, connections, chain>>
         /\ ~UNCHANGED <<users, devices, sessions, connections, chain>> =>
              req'[p].pc # "done"]_vars

\* a login has answered 200 after its grant was attempted and failed
WitnessLoginStepOrder ==
  \E p \in Procs :
    /\ Done(p, "login")
    /\ req[p].resp.status = 200
    /\ req[p].session # NoSession
    /\ req[p].fwTried /\ req[p].fwThrew
    /\ Opened(p)
    /\ auditLog = AuditRow("LOGIN", req[p].user)

----------------------------------------------------------------------------
(* Ownership of device rows *)

\* C25: a device row keeps its owner for as long as it exists; a login never
\* changes a device row owned by a user other than the one logging in; and
\* the device a successful login answers with is owned by that user.
ExclusiveOwnership ==
  [][/\ \A d \in devices, e \in devices' :
          d.id = e.id => d.userId = e.userId
     /\ \A p \in Procs :
          req[p].kind = "login" /\ req'[p].kind = "login" =>
            /\ \A d \in devices :
                 req[p].user # NoUser /\ d.userId # req[p].user =>
                   d \in devices'
            /\ req'[p].pc = "done" /\ req'[p].resp.status = 200 =>
                 \E d \in devices' :
                   /\ d.id = req'[p].resp.deviceId
                   /\ d.userId = req[p].user]_vars

----------------------------------------------------------------------------
(* Outcomes of a refused refresh *)

\* what /refresh answers for a credential past its expiry: no row matches
\* expiresAt > now, or the row matches and jwt.verify throws
ExpiredErrors == {"Invalid or expired refresh token", "Invalid refresh token"}

\* the credential of the refresh in slot p was rotated away before the
\* request arrived (no session row holds it any more) and is not expired
RotatedAway(p) ==
  /\ req[p].tok \in pre[p].retired
  /\ \A i \in 1..Len(pre[p].sessions) :
       pre[p].sessions[i].refreshToken # req[p].tok
  /\ verifyRefreshToken(req[p].tok, now)

\* C26: a refresh with a credential that was rotated away and is not expired
\* is refused, with an error that is not one an expired credential gets.
ReplayIsRevoked ==
  \A p \in Procs :
    Done(p, "refresh") /\ pre[p].taken /\ RotatedAway(p) =>
      /\ req[p].resp.status = 401
      /\ req[p].resp.error \notin ExpiredErrors

----------------------------------------------------------------------------
(* Admin deletion of a user *)

\* the devices of the user an admin deletion names, as they were when the
\* request arrived, whose revoke ran both commands without a failure
PurgedCleanly(p) ==
  {d \in pre[p].devices :
     /\ d.userId = req[p].target
     /\ d.id \notin req[p].threw \cup req[p].notRun}

\* C27: when an admin deletion of a user has answered 200, the user and every
\* device, session and connection of the user are gone from storage, and the
\* filter holds no accept rule, for the fingerprint or for the address, of a
\* device of the user whose revoke succeeded; a deletion of the
\* administrator's own account is answered 400 and changes nothing.
UserPurge ==
  \A p \in Procs :
    Done(p, "deluser") /\ pre[p].taken =>
      /\ req[p].resp.status = 200 =>
           /\ req[p].target \notin DOMAIN users
           /\ \A d \in devices : d.userId # req[p].target
           /\ \A i \in SessionIds : sessions[i].userId # req[p].target
           /\ \A i \in 1..Len(connections) :
                connections[i].userId # req[p].target
           /\ \A d \in PurgedCleanly(p) :
                /\ ~RuleExists(MacRule(d.macAddress))
                /\ ~RuleExists(IpRule(d.ipAddress))
      /\ req[p].user # NoUser /\ req[p].target = req[p].user =>
           /\ req[p].resp.status = 400
           /\ users = pre[p].users /\ devices = pre[p].devices
           /\ sessions = pre[p].sessions
           /\ connections = pre[p].connections
           /\ chain = pre[p].chain

----------------------------------------------------------------------------
(* The filter against storage *)

\* One request at a time, MaxSeqRequests in all: logins with the right
\* password, device disconnects and deletions, the administrator's
\* deactivations of accounts, and disconnect-all. Every iptables command
\* succeeds, and a second can pass between two requests. An account,
\* fingerprint or address no device row has yet is the next unused one.
ArriveFilter(p, lim) ==
  \/ \E l \in NextOwners \ {NoUser},
        m \in 1..Min(NumMacs, Cardinality(KnownMacs) + 1),
        a \in 1..Min(NumIps, Cardinality(KnownIps) + 1) :
       StartLogin(p, lim, l, "secret", m, a)
  \/ \E b \in issued, d \in DeviceIds : StartDisconnect(p, lim, b, d)
  \/ \E b \in issued, d \in DeviceIds : StartDelete(p, lim, b, d)
  \/ \E b \in issued, u \in NextOwners \ {NoUser} :
       StartUpdate(p, lim, b, u, FALSE)
  \/ \E b \in issued : StartDisconnectAll(p, lim, b)

NextFilter ==
  \/ \E p \in {1} :
       \/ ArriveFilter(p, Load(1, MaxSeqRequests, TRUE))
       \/ LoginStep(p, {"ok"})
       \/ Authenticate(p)
       \/ DisconnectStep(p, {"ok"})
       \/ DeleteStep(p, {"ok"})
       \/ UpdateStep(p, {"ok"})
       \/ DisconnectAllStep(p, {"ok"})
       \/ Finish(p)
  \/ Tick(Seconds(MaxSeconds))

SpecFilter == Init /\ [][NextFilter]_vars

\* the active devices of storage
ActiveDevices == {d \in devices : d.isActive}

\* C28: when no request is in progress, every accept rule of the filter
\* belongs to an active device of storage: a rule for a fingerprint to an
\* active device with that fingerprint, a rule for an address to an active
\* device whose current address it is.
FilterMatchesStorage ==
  InFlight = {} =>
    \A i \in 1..Len(chain) :
      /\ chain[i].type = "mac" =>
           \E d \in ActiveDevices : d.macAddress = chain[i].key
      /\ chain[i].type = "ip" =>
           \E d \in ActiveDevices : d.ipAddress = chain[i].key


\* the addresses an identity was granted from: login records the address it
\* passes to addDeviceToWhitelist in the connection row it opens
GrantedFrom(id) ==
  {connections[i].ipAddress :
     i \in {j \in 1..Len(connections) : connections[j].deviceId = id}}

\* C29: when logins have granted one identity, and no other, first from one
\* address and later from another, and the disconnect of its device has
\* answered 200 (a revoke for the identity and its current address), the
\* filter holds no accept rule for the identity nor for any address it was
\* granted from.
RevokeCoversAddresses ==
  \A p \in Procs :
    Done(p, "disconnect") /\ req[p].resp.status = 200 /\ pre[p].taken =>
      \A d \in devices :
        /\ d.id = req[p].device
        /\ \A i \in 1..Len(connections) : connections[i].deviceId = d.id
        /\ Cardinality(GrantedFrom(d.id)) > 1
        => /\ ~RuleExists(MacRule(d.macAddress))
           /\ \A a \in GrantedFrom(d.id) : ~RuleExists(IpRule(a))

----------------------------------------------------------------------------
(* Deactivation of an account against a login in flight *)

\* Requests overlap: up to MaxInFlight handlers run at once, their steps
\* interleaved at every await; MaxRequests requests in all: logins with the
\* right password and the administrator's deactivations of accounts. Every
\* iptables command succeeds. An account, fingerprint or address no device
\* row has yet is the next unused one.
ArriveDeactivate(p, lim) ==
  \/ \E l \in NextOwners \ {NoUser},
        m \in 1..Min(NumMacs, Cardinality(KnownMacs) + 1),
        a \in 1..Min(NumIps, Cardinality(KnownIps) + 1) :
       StartLogin(p, lim, l, "secret", m, a)
  \/ \E b \in issued, u \in NextOwners \ {NoUser} :
       StartUpdate(p, lim, b, u, FALSE)

NextDeactivate ==
  \E p \in Procs :
    \/ ArriveDeactivate(p, Load(MaxInFlight, MaxRequests, TRUE))
    \/ LoginStep(p, {"ok"})
    \/ Authenticate(p)
    \/ UpdateStep(p, {"ok"})
    \/ Finish(p)

SpecDeactivate == Init /\ [][NextDeactivate]_vars

\* the request in slot p was running when the request in slot q arrived
RunningAtArrival(p, q) ==
  /\ pre[p].taken /\ pre[q].taken
  /\ p \in pre[q].busy
  /\ pre[p].started < pre[q].started

\* the requests in slots p and q were in progress at the same time
Overlap(p, q) == RunningAtArrival(p, q) \/ RunningAtArrival(q, p)

\* C30: when a login of an account and an administrator's deactivation of
\* that account, answered 200, were in progress at the same time and both
\* have returned, the account has no active device, no active session and
\* no open connection, and the filter holds no accept rule for the
\* fingerprint or the address of any of its devices.
DeactivationHolds ==
  \A p, q \in Procs :
    /\ Done(p, "login") /\ Done(q, "update")
    /\ req[q].resp.status = 200 /\ ~req[q].isActive
    /\ req[p].login = req[q].target
    /\ Overlap(p, q)
    => /\ \A d \in devices :
            d.userId = req[q].target =>
              /\ ~d.isActive
              /\ ~RuleExists(MacRule(d.macAddress))
              /\ ~RuleExists(IpRule(d.ipAddress))
       /\ \A i \in SessionIds :
            sessions[i].userId = req[q].target => ~sessions[i].isActive
       /\ \A i \in 1..Len(connections) :
            connections[i].userId = req[q].target => ~connections[i].isActive

----------------------------------------------------------------------------
(* Logout against a refresh in flight *)

\* Requests overlap: up to MaxInFlight handlers run at once, their steps
\* interleaved at every await; MaxRequests requests in all, from one account
\* and one fingerprint: logins with the right password, refreshes and
\* logouts with the refresh tokens handed out so far. Every iptables command
\* succeeds, and the clock moves between requests.
ArriveLogout(p, lim) ==
  \/ StartLogin(p, lim, 1, "secret", 1, 1)
  \/ \E t \in issued : StartRefresh(p, lim, t)
  \/ \E t \in issued : \E b \in {NoToken, t} : StartLogout(p, lim, t, b)

NextLogout ==
  \/ \E p \in Procs :
       \/ ArriveLogout(p, Load(MaxInFlight, MaxRequests, TRUE))
       \/ LoginStep(p, {"ok"})
       \/ RefreshStep(p)
       \/ LogoutStep(p)
       \/ Finish(p)
  \/ Tick(Instants(MaxHalves))

SpecLogout == Init /\ [][NextLogout]_vars

\* POST /refresh with tok would answer 200 now: the session lookup, the
\* signature and expiry check and the test of the user all pass
Rotatable(tok) ==
  \E i \in SessionIds :
    /\ ValidSession(i, tok, now)
    /\ verifyRefreshToken(tok, now)
    /\ users[sessions[i].userId].isActive

\* C31: when a refresh and a logout with the same refresh token were in
\* progress at the same time and both have returned, the session that held
\* the token is inactive, and neither the token nor the one the refresh
\* returned can be rotated.
LogoutHolds ==
  \A p, q \in Procs :
    /\ Done(p, "refresh") /\ Done(q, "logout")
    /\ req[p].tok # NoToken /\ req[p].tok = req[q].tok
    /\ Overlap(p, q)
    => /\ \A i \in SessionIds :
            pre[q].sessions[i].refreshToken = req[q].tok =>
              ~sessions[i].isActive
       /\ ~Rotatable(req[q].tok)
       /\ req[p].resp.tokens # NoToken => ~Rotatable(req[p].resp.tokens)

----------------------------------------------------------------------------
(* The default-deny rule of the portal *)

\* C32: when no call is running and the chain holds the default-deny rule
\* (initialize has put it there), the default-deny rule is the last rule of
\* the chain: every rule a later grant or NAT setup adds is before it.
DenyStaysLast ==
  Running = {} /\ CountIn(chain, DropRule) > 0 =>
    chain[Len(chain)] = DropRule

----------------------------------------------------------------------------
(* Connections against devices *)

\* the connection rows that are open
OpenConnections(conns) == {i \in 1..Len(conns) : conns[i].isActive}

\* C33: whenever a step leaves no request in progress, every open connection
\* references a device that is active; and no step that keeps the rows of
\* the table opens a connection that was closed.
ConnectionsFollowDevices ==
  [][/\ Running' = {} =>
          \A i \in OpenConnections(connections') :
            \E d \in devices' :
              d.id = connections'[i].deviceId /\ d.isActive
     /\ Len(connections') >= Len(connections) =>
          \A i \in 1..Len(connections) :
            ~connections[i].isActive => ~connections'[i].isActive]_vars

----------------------------------------------------------------------------
(* PUT /devices/:deviceId *)

StartRename(p, lim, bearer, deviceId, name) ==
  /\ Begin(p, lim,
           [Idle EXCEPT !.kind = "rename", !.pc = "auth", !.bearer = bearer,
                        !.device = deviceId, !.deviceName = name])
  /\ UNCHANGED <<Tables, now, env, client>>

\* if (!deviceName || deviceName.trim().length === 0): 400
RenameCheck(p) ==
  /\ At(p, "rename", "m_name")
  /\ req' = [req EXCEPT ![p] =
       IF req[p].deviceName = ""
       THEN Reply(req[p], 400, "Device name is required")
       ELSE [req[p] EXCEPT !.pc = "m_find"]]
  /\ UNCHANGED <<Tables, now, env, client, pre, started>>

RenameFind(p) == FindOwnDevice(p, "rename", "m_find", "m_update")

\* prisma.device.update({id}, {deviceName}) (P2025 when the row is gone),
\* then res.json({message, device})
RenameUpdate(p) ==
  /\ At(p, "rename", "m_update")
  /\ LET r == req[p] IN
       IF DeviceById(r.device) = {}
       THEN /\ req' = [req EXCEPT ![p] = P2025(r)]
            /\ UNCHANGED devices
       ELSE LET d == CHOOSE d \in DeviceById(r.device) : TRUE IN
            /\ devices' = (devices \ {d}) \cup
                            {[d EXCEPT !.deviceName = r.deviceName]}
            /\ req' = [req EXCEPT ![p] = Reply(r, 200, "")]
  /\ UNCHANGED <<users, sessions, connections, chain, auditLog, issued,
                 retired, revoked, now, env, client, pre, started>>

RenameStep(p) ==
  \/ RenameCheck(p)
  \/ RenameFind(p)
  \/ RenameUpdate(p)

\* the names a client sends
DeviceNames == {"", "Tablet"}

\* One request at a time, MaxSeqRequests in all: logins with the right
\* password, and disconnects, deletions and renames of any device by any
\* account that holds a token. Every iptables command succeeds. An account,
\* fingerprint or address no device row has yet is the next unused one.
ArriveOwner(p, lim) ==
  \/ \E l \in NextOwners \ {NoUser},
        m \in 1..Min(NumMacs, Cardinality(KnownMacs) + 1),
        a \in 1..Min(NumIps, Cardinality(KnownIps) + 1) :
       StartLogin(p, lim, l, "secret", m, a)
  \/ \E b \in issued, d \in DeviceIds : StartDisconnect(p, lim, b, d)
  \/ \E b \in issued, d \in DeviceIds : StartDelete(p, lim, b, d)
  \/ \E b \in issued, d \in DeviceIds, n \in DeviceNames :
       StartRename(p, lim, b, d, n)

NextOwner ==
  \E p \in {1} :
    \/ ArriveOwner(p, Load(1, MaxSeqRequests, TRUE))
    \/ LoginStep(p, {"ok"})
    \/ Authenticate(p)
    \/ DisconnectStep(p, {"ok"})
    \/ DeleteStep(p, {"ok"})
    \/ RenameStep(p)
    \/ Finish(p)

SpecOwner == Init /\ [][NextOwner]_vars

\* the device operations on a device by its id
DeviceKinds == {"disconnect", "delete", "rename"}

\* the request in slot p named a device that its account did not own when
\* it arrived
NotOwner(p) ==
  /\ pre[p].taken /\ req[p].user # NoUser
  /\ \A d \in pre[p].devices : d.id = req[p].device => d.userId # req[p].user

\* the request in slot p passed the validation of its body
WellFormed(p) == req[p].kind = "rename" => req[p].deviceName # ""

----------------------------------------------------------------------------
(* Disconnect of a device that is already inactive *)

\* the disconnect in slot p named a device of its account that was inactive
\* when the request arrived
AlreadyInactive(p) ==
  /\ pre[p].taken
  /\ \E d \in pre[p].devices :
       d.id = req[p].device /\ d.userId = req[p].user /\ ~d.isActive

\* C35: a disconnect of a device that is already inactive answers 200 and
\* leaves the device rows, the connections and the filter as they were when
\* it arrived.
DisconnectIdempotent ==
  \A p \in Procs :
    Done(p, "disconnect") /\ AlreadyInactive(p) =>
      /\ req[p].resp.status = 200
      /\ devices = pre[p].devices
      /\ connections = pre[p].connections
      /\ chain = pre[p].chain

----------------------------------------------------------------------------
(* What a refresh does to the session row *)

\* the session rows that held the credential of the refresh in slot p when
\* the request arrived
HeldBy(p) ==
  {i \in 1..Len(pre[p].sessions) :
     pre[p].sessions[i].refreshToken = req[p].tok}

\* of those, the rows that were active and not past their expiry
LiveHolders(p) ==
  {i \in HeldBy(p) :
     pre[p].sessions[i].isActive /\ pre[p].sessions[i].expiresAt > pre[p].now}

\* C36: a refresh with a credential that no session holds, or whose session
\* is inactive or past its expiry, answers 401 without credentials and
\* leaves every session row as it was; a refresh that answers 200 leaves the
\* session that held the credential in place, active, holding the returned
\* credential, which is not the one presented, with its expiry seven days
\* after the refresh and not earlier than it was.
RefreshOnSession ==
  \A p \in Procs :
    Done(p, "refresh") /\ pre[p].taken =>
      /\ LiveHolders(p) = {} =>
           /\ req[p].resp.status = 401
           /\ req[p].resp.tokens = NoToken
           /\ sessions = pre[p].sessions
      /\ req[p].resp.status = 200 =>
           \E i \in LiveHolders(p) :
             /\ sessions[i].refreshToken = req[p].resp.tokens
             /\ sessions[i].refreshToken # req[p].tok
             /\ sessions[i].expiresAt = SessionExpiry(pre[p].now)
             /\ sessions[i].expiresAt >= pre[p].sessions[i].expiresAt
             /\ sessions[i].isActive
             /\ sessions[i].userId = pre[p].sessions[i].userId
             /\ \A j \in SessionIds \ {i} : sessions[j] = pre[p].sessions[j]

----------------------------------------------------------------------------
(* Refresh against the state of the account *)

\* Refreshes and deactivations overlap: up to MaxInFlight of them run at
\* once, their steps interleaved at every await, while a login runs on its
\* own; MaxRequests requests in all, from the administrator's account and
\* one fingerprint: logins with the right password, refreshes with the
\* refresh tokens handed out so far, and deactivations of the account. Every
\* iptables command succeeds, and the clock moves between requests, up to
\* the lifetime of a refresh token.
ArriveAccount(p, lim) ==
  \/ InFlight = {} /\ StartLogin(p, lim, 1, "secret", 1, 1)
  \/ /\ \A q \in InFlight : req[q].kind # "login"
     /\ \/ \E t \in issued : StartRefresh(p, lim, t)
        \/ \E b \in issued : StartUpdate(p, lim, b, 1, FALSE)

NextAccount ==
  \/ \E p \in Procs :
       \/ ArriveAccount(p, Load(MaxInFlight, MaxRequests, TRUE))
       \/ LoginStep(p, {"ok"})
       \/ RefreshStep(p)
       \/ Authenticate(p)
       \/ UpdateStep(p, {"ok"})
       \/ Finish(p)
  \/ Tick({MsPerSecond \div 2, SessionTTLDays * MsPerDay})

SpecAccount == Init /\ [][NextAccount]_vars

\* C37: a refresh with a credential held by a session whose user was
\* inactive when the request arrived answers 401 without credentials and
\* generates none to store; and a refresh with a credential
\* that an active, unexpired session held when the request arrived and that
\* fails jwt.verify answers 401 and leaves that session inactive.
RefreshRespectsAccount ==
  \A p \in Procs :
    Done(p, "refresh") /\ pre[p].taken =>
      /\ /\ HeldBy(p) # {}
         /\ \A i \in HeldBy(p) :
              ~pre[p].users[pre[p].sessions[i].userId].isActive
         => /\ req[p].resp.status = 401
            /\ req[p].resp.tokens = NoToken
            /\ req[p].newTok = NoToken
      /\ LiveHolders(p) # {} /\ ~verifyRefreshToken(req[p].tok, pre[p].now)
         => /\ req[p].resp.status = 401
            /\ req[p].resp.tokens = NoToken
            /\ \A i \in LiveHolders(p) : ~sessions[i].isActive

WitnessRefreshRespectsAccount ==
  \E p \in Procs :
    /\ Done(p, "refresh") /\ pre[p].taken
    /\ \E i \in LiveHolders(p) :
         ~pre[p].users[pre[p].sessions[i].userId].isActive
    /\ req[p].resp.error = "User account is inactive"

-----------------------------------------------------------------------------
(* The browser's ApiClient on its own: calls, answers, refreshes, clock *)

NextClient ==
  \/ \E c \in ApiCalls : ApiCall(c)
  \/ \E c \in ApiCalls : \E status \in {200, 401, 500} : ApiResponse(c, status)
  \/ \E k \in client.posted : RefreshResolved(k)
  \/ \E k \in client.posted : RefreshRejected(k)
  \/ RefreshTokenExpires

SpecClient == Init /\ [][NextClient]_vars

\* What holds of the refresh promise in every state: at most one post is
\* unanswered, the promise is set exactly while one is, every waiting call
\* waits on the unanswered post, and a call sent a second time carries the
\* access token that the refresh it waited on returned.
OneRefresh(cl) ==
  /\ Cardinality(cl.posted) <= 1
  /\ cl.refreshPromise = 0 <=> cl.posted = {}
  /\ cl.refreshPromise # 0 => cl.posted = {cl.refreshPromise}
  /\ \A c \in ApiCalls :
       /\ cl.calls[c].pc = "waiting" => cl.calls[c].awaits \in cl.posted
       /\ cl.calls[c].sends > 1 =>
            /\ cl.calls[c].got = cl.calls[c].awaits + 1
            /\ cl.calls[c].bearer = cl.calls[c].got

\* Call c joins the unanswered refresh in this step, which posts nothing.
Joins(c) ==
  /\ client'.calls[c].pc = "waiting"
  /\ client'.calls[c].awaits \in client.posted
  /\ client'.posted = client.posted
  /\ client'.refreshes = client.refreshes

\* C38 as stated: at most one refresh post is outstanding, every call that
\* gets a 401 while one is outstanding waits on it and is sent again with
\* the token it returns, and the promise is cleared when the post settles.
SingleFlight ==
  [][/\ OneRefresh(client')
     /\ \A c \in ApiCalls :
          ApiResponse(c, 401) /\ client.posted # {} => Joins(c)]_vars

\* C38, amended: at most one refresh post is outstanding; every call that
\* gets its first 401 while one is outstanding and the stored refresh token
\* has not expired waits on it and is sent again with the token it returns;
\* the promise is cleared when the post settles, so that a later 401 posts
\* a new refresh.
SingleFlightFirst ==
  [][/\ OneRefresh(client')
     /\ \A c \in ApiCalls :
          /\ ApiResponse(c, 401) /\ client.posted # {}
          /\ ~client.calls[c].retry
          /\ ~isRefreshTokenExpired(client)
          => Joins(c)
     /\ \A k \in client.posted :
          RefreshResolved(k) \/ RefreshRejected(k) =>
            /\ client'.refreshPromise = 0
            /\ RefreshResolved(k) =>
                 \A c \in Awaiting(client, k) :
                   /\ client'.calls[c].pc = "sent"
                   /\ client'.calls[c].bearer = k + 1]_vars

\* Two calls shared one refresh and were sent again with its token, and a
\* later 401 has posted a second refresh.
WitnessSingleFlightFirst ==
  /\ client.refreshes = 2
  /\ \E c, d \in ApiCalls :
       /\ c # d
       /\ client.calls[c].sends = 2 /\ client.calls[d].sends = 2
       /\ client.calls[c].awaits = 1 /\ client.calls[d].awaits = 1
       /\ client.calls[c].got = client.calls[d].got


\* Every request and every refresh post is answered or fails in the end
\* (axios settles each promise with a response or a network error).
Answered ==
  /\ \A c \in ApiCalls : WF_vars(\E status \in {200, 401, 500} :
                                   ApiResponse(c, status))
  /\ WF_vars(\E k \in client.posted : RefreshResolved(k) \/ RefreshRejected(k))

SpecClientLive == SpecClient /\ Answered

\* Call c is under way: sent and unanswered, or waiting for a refresh.
Pending(c) == client.calls[c].pc \in {"sent", "waiting"}

\* The handling of call c has ended.
Settled(c) == client.calls[c].pc \in {"resolved", "rejected"}

\* C39: a call is sent at most twice; a 401 on the second sending is
\* rejected and posts no refresh; a failed refresh, and a first 401 that
\* finds the stored refresh token missing or expired, leave neither token
\* in localStorage; and every call that was made is settled in the end.
RetryBounded ==
  /\ [][/\ \A c \in ApiCalls : client'.calls[c].sends <= 2
        /\ \A c \in ApiCalls :
             ApiResponse(c, 401) =>
               /\ client.calls[c].retry =>
                    /\ client'.calls[c].pc = "rejected"
                    /\ client'.refreshes = client.refreshes
                    /\ client'.posted = client.posted
               /\ ~client.calls[c].retry /\ isRefreshTokenExpired(client) =>
                    /\ client'.calls[c].pc = "rejected"
                    /\ client'.accessToken = 0 /\ client'.refreshToken = 0
                    /\ client'.posted = client.posted
        /\ \A k \in client.posted :
             RefreshRejected(k) =>
               /\ client'.accessToken = 0 /\ client'.refreshToken = 0
               /\ \A c \in Awaiting(client, k) : Settled(c)']_vars
  /\ \A c \in ApiCalls : Pending(c) ~> Settled(c)

\* One call was retried and its retry was rejected with a 401; another was
\* rejected on its first 401 because the refresh token had run out, which
\* emptied localStorage.
WitnessRetryBounded ==
  /\ client.accessToken = 0 /\ client.refreshToken = 0
  /\ \E c, d \in ApiCalls :
       /\ client.calls[c].sends = 2 /\ client.calls[c].status = 401
       /\ client.calls[c].pc = "rejected"
       /\ client.calls[d].sends = 1 /\ client.calls[d].status = 401
       /\ client.calls[d].pc = "rejected" /\ ~client.calls[d].retry

====
